---------------------------- MODULE Spec2Model ----------------------------
(***************************************************************************)
(* Massilia: the simulation core (grid, construction, connectivity,        *)
(* walkers, invasion, combat, the tick orchestrator, save/load and         *)
(* startup) as a state machine.                                            *)
(*                                                                         *)
(* Conventions                                                             *)
(*  - a cell is a pair <<x, z>>; the grid is a function from cells to      *)
(*    tiles; tile.building === null is the string "none";                  *)
(*  - time is counted in frames of 1/DT_PER_SECOND seconds; interpolation  *)
(*    progress is counted in units of 1/(10 * DT_PER_SECOND) tile, so that *)
(*    progress += dt * speed stays in the integers;                        *)
(*  - food is counted in halves (FOOD_PER_POP = 0.5 is one half);          *)
(*  - Math.random() is a nondeterministic choice;                          *)
(*  - meshes, sounds, the HUD and the camera are not state of the model.   *)
(***************************************************************************)
EXTENDS Integers, Sequences, FiniteSets, TLC

(***************************************************************************)
(* Bounds of the model (not program constants).                            *)
(***************************************************************************)
\* side of the square grid; the program's GRID_SIZE is 32
GRID_SIZE == 5
\* frames per second of the modelled frame sequence (dt = 1/DT_PER_SECOND s)
DT_PER_SECOND == 2

(***************************************************************************)
(* constants.ts                                                            *)
(***************************************************************************)
TICK_INTERVAL == 2
STARTING_GOLD == 500
FARM_FOOD_RATE == 4
\* FOOD_PER_POP = 0.5, as a count of halves
FOOD_PER_POP_HALVES == 1
TAX_RATE == 2
MAX_POP_PER_HOUSE == 10
GROWTH_RATE == 3
TOWER_RANGE == 6
TOWER_DAMAGE == 3

BuildingTypes ==
    {"road", "house", "farm", "well", "market", "barracks", "wall", "tower", "forum"}

BUILDINGS ==
    [t \in BuildingTypes |->
        CASE t = "road"     -> [cost |-> 5,   size |-> 1, hp |-> 10]
          [] t = "house"    -> [cost |-> 30,  size |-> 1, hp |-> 20]
          [] t = "farm"     -> [cost |-> 50,  size |-> 2, hp |-> 15]
          [] t = "well"     -> [cost |-> 20,  size |-> 1, hp |-> 15]
          [] t = "market"   -> [cost |-> 80,  size |-> 1, hp |-> 25]
          [] t = "barracks" -> [cost |-> 100, size |-> 2, hp |-> 40]
          [] t = "wall"     -> [cost |-> 10,  size |-> 1, hp |-> 50]
          [] t = "tower"    -> [cost |-> 60,  size |-> 1, hp |-> 30]
          [] t = "forum"    -> [cost |-> 0,   size |-> 2, hp |-> 100]]

\* the "gold" of start()/restart(): { value: Infinity }
INFINITE_GOLD == 1000000

(***************************************************************************)
(* Tile.ts, Grid.ts                                                        *)
(***************************************************************************)
Coords == 0 .. (GRID_SIZE - 1)
Cells == Coords \X Coords

\* new Tile(x, z)
NewTile ==
    [building |-> "none", buildingHp |-> 0, hasWater |-> FALSE, hasFood |-> FALSE,
     waterTimer |-> 0, foodTimer |-> 0]

\* new Grid(size)
NewGrid == [c \in Cells |-> NewTile]

isInBounds(x, z) == x >= 0 /\ x < GRID_SIZE /\ z >= 0 /\ z < GRID_SIZE

\* grid.getTile(x, z)?.building, with "none" for null and for no tile
buildingAt(grid, x, z) ==
    IF isInBounds(x, z) THEN grid[<<x, z>>].building ELSE "none"

isRoadOrForum(grid, x, z) == buildingAt(grid, x, z) \in {"road", "forum"}

\* the cells in the order of  for (x ...) for (z ...)
ScanOrder == [i \in 1 .. (GRID_SIZE * GRID_SIZE) |->
                 <<(i - 1) \div GRID_SIZE, (i - 1) % GRID_SIZE>>]

\* Tile.toJSON / Tile.fromJSON, Grid.toJSON / Grid.fromJSON: every field of
\* every tile is copied, so the round trip is the tile-wise copy
TileToJSON(tile) ==
    [building |-> tile.building, buildingHp |-> tile.buildingHp,
     hasWater |-> tile.hasWater, hasFood |-> tile.hasFood,
     waterTimer |-> tile.waterTimer, foodTimer |-> tile.foodTimer]

TileFromJSON(data) ==
    [building |-> data.building, buildingHp |-> data.buildingHp,
     hasWater |-> data.hasWater, hasFood |-> data.hasFood,
     waterTimer |-> data.waterTimer, foodTimer |-> data.foodTimer]

GridToJSON(grid) == [c \in Cells |-> TileToJSON(grid[c])]

GridFromJSON(data) == [c \in Cells |-> TileFromJSON(data[c])]

(***************************************************************************)
(* Pathfinding.ts                                                          *)
(***************************************************************************)
NEIGHBORS == << <<1, 0>>, <<-1, 0>>, <<0, 1>>, <<0, -1>> >>

Neighbours4(x, z) == {<<x + NEIGHBORS[i][1], z + NEIGHBORS[i][2]>> : i \in 1 .. 4}

\* the breadth-first fill, as the closure it computes: the cells popped from
\* the queue that are in bounds and hold a road or the forum
RECURSIVE FloodFrom(_, _, _)
FloodFrom(grid, frontier, visited) ==
    LET ok == {c \in frontier : isRoadOrForum(grid, c[1], c[2])} \ visited
    IN  IF ok = {} THEN visited
        ELSE FloodFrom(grid,
                       UNION {Neighbours4(c[1], c[2]) : c \in ok},
                       visited \cup ok)

floodFillRoads(grid, startX, startZ) == FloodFrom(grid, {<<startX, startZ>>}, {})

Footprint(x, z, size) ==
    {<<x + dx, z + dz>> : dx \in 0 .. (size - 1), dz \in 0 .. (size - 1)}

\* isBuildingConnected that finds every building connected
isBuildingConnectedAlways(grid, bx, bz, size, reachableRoads) == TRUE

isBuildingConnected(grid, bx, bz, size, reachableRoads) ==
    \E c \in Footprint(bx, bz, size) :
        Neighbours4(c[1], c[2]) \cap reachableRoads # {}

\* the candidates of getAdjacentRoadTiles: one is drawn at random, so the
\* order of the list is not modelled
\* a variant that takes every cell around the footprint
getAdjacentTilesOfAnyKind(grid, x, z, size) ==
    {n \in UNION {Neighbours4(c[1], c[2]) : c \in Footprint(x, z, size)} :
        n \notin Footprint(x, z, size) /\ n \in Cells}

getAdjacentRoadTiles(grid, x, z, size) ==
    {n \in UNION {Neighbours4(c[1], c[2]) : c \in Footprint(x, z, size)} :
        /\ n \notin Footprint(x, z, size)
        /\ isRoadOrForum(grid, n[1], n[2])}

getRoadNeighbors(grid, x, z) ==
    {n \in Neighbours4(x, z) : isRoadOrForum(grid, n[1], n[2])}

(***************************************************************************)
(* BuildingSystem.ts                                                       *)
(***************************************************************************)
\* canPlace that looks at the origin cell only
canPlaceOriginOnly(grid, type, x, z) ==
    /\ isInBounds(x, z)
    /\ grid[<<x, z>>].building = "none"

\* canPlace that checks the bounds and not the occupancy
canPlaceInBoundsOnly(grid, type, x, z) ==
    \A c \in Footprint(x, z, BUILDINGS[type].size) : isInBounds(c[1], c[2])

canPlace(grid, type, x, z) ==
    \A c \in Footprint(x, z, BUILDINGS[type].size) :
        /\ isInBounds(c[1], c[2])
        /\ grid[c].building = "none"

\* the tiles of place(): building and buildingHp are set, the service fields
\* are left as they are
MarkTiles(grid, type, x, z) ==
    [c \in Cells |->
        IF c \in Footprint(x, z, BUILDINGS[type].size)
        THEN [grid[c] EXCEPT !.building = type, !.buildingHp = BUILDINGS[type].hp]
        ELSE grid[c]]

\* a variant that builds whatever the gold at hand
placeOnCredit(grid, placedBuildings, type, x, z, gold) ==
    IF ~canPlace(grid, type, x, z)
    THEN [ok |-> FALSE, grid |-> grid, placedBuildings |-> placedBuildings,
          gold |-> gold]
    ELSE [ok |-> TRUE,
          grid |-> MarkTiles(grid, type, x, z),
          placedBuildings |-> Append(placedBuildings, [type |-> type, x |-> x, z |-> z]),
          gold |-> gold - BUILDINGS[type].cost]

\* place(grid, type, x, z, gold): the returned boolean, and the grid, the
\* records and the gold it leaves
place(grid, placedBuildings, type, x, z, gold) ==
    IF gold < BUILDINGS[type].cost \/ ~canPlace(grid, type, x, z)
    THEN [ok |-> FALSE, grid |-> grid, placedBuildings |-> placedBuildings,
          gold |-> gold]
    ELSE [ok |-> TRUE,
          grid |-> MarkTiles(grid, type, x, z),
          placedBuildings |-> Append(placedBuildings, [type |-> type, x |-> x, z |-> z]),
          gold |-> gold - BUILDINGS[type].cost]

placeFromSave(placedBuildings, type, x, z) ==
    Append(placedBuildings, [type |-> type, x |-> x, z |-> z])

Covers(b, x, z) ==
    /\ x >= b.x /\ x < b.x + BUILDINGS[b.type].size
    /\ z >= b.z /\ z < b.z + BUILDINGS[b.type].size

\* findIndex by exact match of the origin
findIndexAtOrigin(placedBuildings, x, z) ==
    IF \E i \in 1 .. Len(placedBuildings) :
          placedBuildings[i].x = x /\ placedBuildings[i].z = z
    THEN CHOOSE i \in 1 .. Len(placedBuildings) :
            placedBuildings[i].x = x /\ placedBuildings[i].z = z
    ELSE 0

\* findIndex with the footprint taken one cell too wide
findIndexAtWide(placedBuildings, x, z) ==
    IF \E i \in 1 .. Len(placedBuildings) :
          /\ x >= placedBuildings[i].x
          /\ x <= placedBuildings[i].x + BUILDINGS[placedBuildings[i].type].size
          /\ z >= placedBuildings[i].z
          /\ z <= placedBuildings[i].z + BUILDINGS[placedBuildings[i].type].size
    THEN CHOOSE i \in 1 .. Len(placedBuildings) :
          /\ x >= placedBuildings[i].x
          /\ x <= placedBuildings[i].x + BUILDINGS[placedBuildings[i].type].size
          /\ z >= placedBuildings[i].z
          /\ z <= placedBuildings[i].z + BUILDINGS[placedBuildings[i].type].size
    ELSE 0

\* placedBuildings.findIndex(covers (x, z)); 0 for -1
findIndexAt(placedBuildings, x, z) ==
    IF \E i \in 1 .. Len(placedBuildings) : Covers(placedBuildings[i], x, z)
    THEN CHOOSE i \in 1 .. Len(placedBuildings) :
            /\ Covers(placedBuildings[i], x, z)
            /\ \A j \in 1 .. (i - 1) : ~Covers(placedBuildings[j], x, z)
    ELSE 0

RemoveIndex(seq, idx) ==
    [i \in 1 .. (Len(seq) - 1) |-> IF i < idx THEN seq[i] ELSE seq[i + 1]]

ClearTiles(grid, b) ==
    [c \in Cells |->
        IF c \in Footprint(b.x, b.z, BUILDINGS[b.type].size)
        THEN [grid[c] EXCEPT !.building = "none", !.buildingHp = 0]
        ELSE grid[c]]

\* a variant that clears only the tile it is given
removeBuildingAtOneTile(grid, placedBuildings, x, z) ==
    LET idx == findIndexAt(placedBuildings, x, z)
    IN  IF idx = 0
        THEN [grid |-> grid, placedBuildings |-> placedBuildings]
        ELSE [grid |-> [grid EXCEPT ![<<x, z>>].building = "none",
                                    ![<<x, z>>].buildingHp = 0],
              placedBuildings |-> RemoveIndex(placedBuildings, idx)]

\* removeBuildingAt(grid, x, z): the grid and the records it leaves
removeBuildingAt(grid, placedBuildings, x, z) ==
    LET idx == findIndexAt(placedBuildings, x, z)
    IN  IF idx = 0
        THEN [grid |-> grid, placedBuildings |-> placedBuildings]
        ELSE [grid |-> ClearTiles(grid, placedBuildings[idx]),
              placedBuildings |-> RemoveIndex(placedBuildings, idx)]

(***************************************************************************)
(* Generic helpers                                                         *)
(***************************************************************************)
Abs(n) == IF n < 0 THEN -n ELSE n

Sign(n) == IF n > 0 THEN 1 ELSE IF n < 0 THEN -1 ELSE 0

Max(a, b) == IF a >= b THEN a ELSE b

Min(a, b) == IF a <= b THEN a ELSE b

Manhattan(x1, z1, x2, z2) == Abs(x1 - x2) + Abs(z1 - z2)

\* every sequence that takes its i-th element from the i-th set
RECURSIVE SeqProduct(_)
SeqProduct(sets) ==
    IF sets = <<>> THEN {<<>>}
    ELSE {<<h>> \o t : h \in Head(sets), t \in SeqProduct(Tail(sets))}

\* progress of one whole tile
PROGRESS_ONE == 10 * DT_PER_SECOND

(***************************************************************************)
(* InvasionSystem.ts                                                       *)
(***************************************************************************)
FIRST_WAVE_DELAY == 30
BASE_WAVE_INTERVAL == 25
WAVE_ACCELERATION == 1
MIN_WAVE_INTERVAL == 12
BASE_INVADERS == 1
\* INVADER_SCALING = 1.5, as a count of halves
INVADER_SCALING_HALVES == 3
BARBARIAN_BASE_HP == 8
BARBARIAN_HP_SCALING == 3
BARBARIAN_BASE_DAMAGE == 2
\* BARBARIAN_DAMAGE_SCALING = 0.5, as a count of halves
BARBARIAN_DAMAGE_SCALING_HALVES == 1
\* INVADER_SPEED = 1.2 tiles per second, as tenths
INVADER_SPEED_TENTHS == 12
ATTACK_COOLDOWN == 3

ForumCells(forumPos) == Footprint(forumPos[1], forumPos[2], BUILDINGS["forum"].size)

\* the path rebuilt from the visited map: the cells from the start to node
RECURSIVE PathTo(_, _)
PathTo(node, visited) ==
    IF visited[node] = <<>> THEN <<node>>
    ELSE Append(PathTo(visited[node], visited), node)

\* a variant of the search that does not step on wall cells
RECURSIVE BfsAroundWalls(_, _, _, _)
BfsAroundWalls(grid, queue, visited, forumPos) ==
    IF queue = <<>> THEN <<>>
    ELSE LET curr == Head(queue)
         IN  IF curr \in ForumCells(forumPos) THEN PathTo(curr, visited)
             ELSE LET dirs == [i \in 1 .. 4 |->
                                  <<curr[1] + NEIGHBORS[i][1], curr[2] + NEIGHBORS[i][2]>>]
                      Take(next) == /\ next \notin DOMAIN visited
                                    /\ isInBounds(next[1], next[2])
                                    /\ buildingAt(grid, next[1], next[2]) # "wall"
                      fresh == SelectSeq(dirs, Take)
                      cells == {fresh[i] : i \in 1 .. Len(fresh)}
                  IN  BfsAroundWalls(grid, Tail(queue) \o fresh,
                                     [c \in DOMAIN visited \cup cells |->
                                         IF c \in DOMAIN visited THEN visited[c] ELSE curr],
                                     forumPos)

\* the while loop of computePath: queue is the FIFO queue, visited maps each
\* seen cell to the cell it was reached from (<<>> for null). The result is
\* the path found, or <<>> when the queue runs empty.
RECURSIVE BfsToForum(_, _, _, _)
BfsToForum(grid, queue, visited, forumPos) ==
    IF queue = <<>> THEN <<>>
    ELSE LET curr == Head(queue)
         IN  IF curr \in ForumCells(forumPos) THEN PathTo(curr, visited)
             ELSE LET dirs == [i \in 1 .. 4 |->
                                  <<curr[1] + NEIGHBORS[i][1], curr[2] + NEIGHBORS[i][2]>>]
                      \* a wall cell and any other cell are queued alike
                      Take(next) == /\ next \notin DOMAIN visited
                                    /\ isInBounds(next[1], next[2])
                                    /\ \/ buildingAt(grid, next[1], next[2]) = "wall"
                                       \/ buildingAt(grid, next[1], next[2]) # "wall"
                      fresh == SelectSeq(dirs, Take)
                      cells == {fresh[i] : i \in 1 .. Len(fresh)}
                  IN  BfsToForum(grid, Tail(queue) \o fresh,
                                 [c \in DOMAIN visited \cup cells |->
                                     IF c \in DOMAIN visited THEN visited[c] ELSE curr],
                                 forumPos)

\* computePath(invader, grid)
computePath(inv, grid, forumPos) ==
    LET start == <<inv.x, inv.z>>
        path == BfsToForum(grid, <<start>>, [c \in {start} |-> <<>>], forumPos)
    IN  IF path # <<>>
        THEN [inv EXCEPT !.path = path,
                         !.pathIndex = 1,
                         !.targetX = IF Len(path) > 1 THEN path[2][1] ELSE @,
                         !.targetZ = IF Len(path) > 1 THEN path[2][2] ELSE @]
        ELSE \* no path found: the two-point path straight to the forum
             [inv EXCEPT !.path = <<start, forumPos>>,
                         !.pathIndex = 1,
                         !.targetX = forumPos[1],
                         !.targetZ = forumPos[2]]

\* the invader of spawnWave at (sx, sz), before its path is computed
NewInvader(sx, sz, waveNumber) ==
    [x |-> sx, z |-> sz, targetX |-> sx, targetZ |-> sz, progress |-> 0,
     hp |-> BARBARIAN_BASE_HP + waveNumber * BARBARIAN_HP_SCALING,
     maxHp |-> BARBARIAN_BASE_HP + waveNumber * BARBARIAN_HP_SCALING,
     damage |-> (2 * BARBARIAN_BASE_DAMAGE
                   + waveNumber * BARBARIAN_DAMAGE_SCALING_HALVES) \div 2,
     state |-> "moving", attackCooldown |-> 0, path |-> <<>>, pathIndex |-> 0]

\* a variant that rounds the count up
WaveCountRoundedUp(waveNumber) ==
    (2 * BASE_INVADERS + waveNumber * INVADER_SCALING_HALVES + 1) \div 2

WaveCount(waveNumber) == (2 * BASE_INVADERS + waveNumber * INVADER_SCALING_HALVES) \div 2

\* the offsets Math.floor(Math.random() * spread) can give
SpawnOffsets ==
    LET spread == GRID_SIZE \div 4
        center == GRID_SIZE \div 2
    IN  {center - (spread \div 2) + r : r \in 0 .. (spread - 1)}

SpawnCell(edge, offset) ==
    CASE edge = 0 -> <<offset, 0>>
      [] edge = 1 -> <<offset, GRID_SIZE - 1>>
      [] edge = 2 -> <<GRID_SIZE - 1, offset>>
      [] edge = 3 -> <<0, offset>>

\* spawnWave(grid): the invader lists it can leave, one random edge for the
\* wave and one random offset for each invader
spawnWave(invaders, waveNumber, grid, forumPos) ==
    LET count == WaveCount(waveNumber)
    IN  UNION {
          {invaders \o [i \in 1 .. count |->
                          computePath(NewInvader(SpawnCell(edge, offs[i])[1],
                                                 SpawnCell(edge, offs[i])[2],
                                                 waveNumber),
                                      grid, forumPos)] :
             offs \in [1 .. count -> SpawnOffsets]} :
          edge \in 0 .. 3}

\* attackBuilding(inv, grid): what it returns (kind) and the grid it leaves
attackBuilding(inv, grid) ==
    IF buildingAt(grid, inv.x, inv.z) = "none"
    THEN [kind |-> "null", grid |-> grid]
    ELSE LET c == <<inv.x, inv.z>>
             hp == grid[c].buildingHp - inv.damage
             g2 == [grid EXCEPT ![c].buildingHp = hp]
         IN  IF hp <= 0
             THEN IF grid[c].building = "forum"
                  THEN [kind |-> "forumDestroyed", grid |-> g2]
                  ELSE [kind |-> "buildingDestroyed", grid |-> g2]
             ELSE [kind |-> "buildingDamaged", grid |-> g2]

\* the loop of tick() over the invaders from index i on; acc holds the grid,
\* the invaders and the result built so far
RECURSIVE ProcessAttacks(_, _, _)
ProcessAttacks(acc, i, forumPos) ==
    IF i > Len(acc.invaders) THEN acc
    ELSE LET inv == acc.invaders[i]
         IN  IF inv.state # "attacking" THEN ProcessAttacks(acc, i + 1, forumPos)
             ELSE IF inv.attackCooldown - 1 > 0
             THEN ProcessAttacks(
                    [acc EXCEPT !.invaders[i].attackCooldown = inv.attackCooldown - 1],
                    i + 1, forumPos)
             ELSE LET cooled == [inv EXCEPT !.attackCooldown = ATTACK_COOLDOWN]
                      r == attackBuilding(cooled, acc.grid)
                      inv2 == IF r.kind = "buildingDestroyed"
                              THEN computePath([cooled EXCEPT !.state = "moving"],
                                               r.grid, forumPos)
                              ELSE cooled
                  IN  ProcessAttacks(
                        [grid |-> r.grid,
                         invaders |-> [acc.invaders EXCEPT ![i] = inv2],
                         forumDestroyed |-> acc.forumDestroyed \/ r.kind = "forumDestroyed",
                         buildingsDestroyed |->
                            IF r.kind = "buildingDestroyed"
                            THEN Append(acc.buildingsDestroyed, <<inv.x, inv.z>>)
                            ELSE acc.buildingsDestroyed,
                         damages |->
                            IF r.kind = "buildingDamaged"
                            THEN Append(acc.damages, <<inv.x, inv.z>>)
                            ELSE acc.damages],
                        i + 1, forumPos)

NotDead(inv) == inv.state # "dead"

\* a variant without the floor
NextWaveIntervalUnfloored(waveNumber) ==
    BASE_WAVE_INTERVAL - waveNumber * WAVE_ACCELERATION

NextWaveInterval(waveNumber) ==
    Max(MIN_WAVE_INTERVAL, BASE_WAVE_INTERVAL - waveNumber * WAVE_ACCELERATION)

\* InvasionSystem.tick(grid): every outcome, as the fields of the invasion
\* system, the grid and the returned result
InvasionTick(inv, grid, forumPos) ==
    LET fires == inv.ticksUntilNextWave - 1 <= 0
        lists == IF fires
                 THEN spawnWave(inv.invaders, inv.waveNumber, grid, forumPos)
                 ELSE {inv.invaders}
        wave == IF fires THEN inv.waveNumber + 1 ELSE inv.waveNumber
        until == IF fires THEN NextWaveInterval(wave) ELSE inv.ticksUntilNextWave - 1
    IN  {LET acc == ProcessAttacks([grid |-> grid, invaders |-> l,
                                    forumDestroyed |-> FALSE,
                                    buildingsDestroyed |-> <<>>, damages |-> <<>>],
                                   1, forumPos)
         IN  [invaders |-> SelectSeq(acc.invaders, NotDead),
              waveNumber |-> wave,
              ticksUntilNextWave |-> until,
              waveFired |-> fires,
              grid |-> acc.grid,
              forumDestroyed |-> acc.forumDestroyed,
              buildingsDestroyed |-> acc.buildingsDestroyed,
              damages |-> acc.damages] : l \in lists}

\* a variant in which an invader walks over a wall as over a road
UpdateInvaderOverWalls(inv, dt, grid) ==
    IF inv.state # "moving" THEN inv
    ELSE LET p == inv.progress + dt * INVADER_SPEED_TENTHS
         IN  IF p < PROGRESS_ONE THEN [inv EXCEPT !.progress = p]
             ELSE LET at == [inv EXCEPT !.x = inv.targetX, !.z = inv.targetZ,
                                        !.progress = 0]
                  IN  IF buildingAt(grid, at.x, at.z) \notin {"none", "road", "wall"}
                      THEN [at EXCEPT !.state = "attacking", !.attackCooldown = 1]
                      ELSE IF at.pathIndex + 1 < Len(at.path)
                           THEN [at EXCEPT !.pathIndex = @ + 1,
                                           !.targetX = at.path[at.pathIndex + 2][1],
                                           !.targetZ = at.path[at.pathIndex + 2][2]]
                           ELSE [at EXCEPT !.pathIndex = @ + 1]

\* one invader in InvasionSystem.update(dt, grid)
UpdateInvader(inv, dt, grid) ==
    IF inv.state # "moving" THEN inv
    ELSE LET p == inv.progress + dt * INVADER_SPEED_TENTHS
         IN  IF p < PROGRESS_ONE THEN [inv EXCEPT !.progress = p]
             ELSE LET at == [inv EXCEPT !.x = inv.targetX, !.z = inv.targetZ,
                                        !.progress = 0]
                  IN  IF buildingAt(grid, at.x, at.z) \notin {"none", "road"}
                      THEN [at EXCEPT !.state = "attacking", !.attackCooldown = 1]
                      ELSE IF at.pathIndex + 1 < Len(at.path)
                           THEN [at EXCEPT !.pathIndex = @ + 1,
                                           !.targetX = at.path[at.pathIndex + 2][1],
                                           !.targetZ = at.path[at.pathIndex + 2][2]]
                           ELSE [at EXCEPT !.pathIndex = @ + 1]

\* InvasionSystem.update(dt, grid)
InvasionUpdate(invaders, dt, grid) ==
    [i \in 1 .. Len(invaders) |-> UpdateInvader(invaders[i], dt, grid)]

\* a variant that does not skip the dead
findNearestInvaderOrCorpse(invaders, x, z, range) ==
    LET Dist(i) == Manhattan(invaders[i].x, invaders[i].z, x, z)
        near == {i \in 1 .. Len(invaders) : Dist(i) <= range}
    IN  IF near = {} THEN 0
        ELSE CHOOSE i \in near :
                \A j \in near : Dist(i) < Dist(j) \/ (Dist(i) = Dist(j) /\ i <= j)

\* findNearestInvader(x, z, range): the index of the invader, 0 for null
findNearestInvader(invaders, x, z, range) ==
    LET Dist(i) == Manhattan(invaders[i].x, invaders[i].z, x, z)
        live == {i \in 1 .. Len(invaders) :
                    invaders[i].state # "dead" /\ Dist(i) <= range}
    IN  IF live = {} THEN 0
        ELSE CHOOSE i \in live :
                \A j \in live : Dist(i) < Dist(j) \/ (Dist(i) = Dist(j) /\ i <= j)

\* a variant that lowers the hit points and leaves the state alone
damageInvaderKeepsState(inv, damage) == [inv EXCEPT !.hp = inv.hp - damage]

\* damageInvader(invader, damage)
damageInvader(inv, damage) ==
    [inv EXCEPT !.hp = inv.hp - damage,
                !.state = IF inv.hp - damage <= 0 THEN "dead" ELSE @]

(***************************************************************************)
(* WalkerSystem.ts                                                         *)
(***************************************************************************)
\* WALKER_SPEED = 2.0 tiles per second, as tenths
WALKER_SPEED_TENTHS == 20
WALKER_LIFESPAN == 30
SOLDIER_PATROL_RADIUS == 4
SERVICE_DURATION == 10
SOLDIER_HP == 20
WALKER_HP == 15

DIRECTIONS == << <<1, 0>>, <<-1, 0>>, <<0, 1>>, <<0, -1>> >>

\* the walker pushed by spawn()
NewWalker(type, start, x, z) ==
    [type |-> type, gridX |-> start[1], gridZ |-> start[2],
     targetX |-> start[1], targetZ |-> start[2], prevX |-> x, prevZ |-> z,
     progress |-> 0, lifespan |-> WALKER_LIFESPAN,
     hp |-> IF type = "soldier" THEN SOLDIER_HP ELSE WALKER_HP,
     homeX |-> x, homeZ |-> z]

\* findAdjacentEmptyTile: the cells it can return
findAdjacentEmptyTile(grid, x, z, size) ==
    LET candidates ==
            {<<x + dx, z + dz>> : dx \in -1 .. size, dz \in -1 .. size} \cap
            {c \in Cells : c \notin Footprint(x, z, size) /\ grid[c].building = "none"}
    IN  IF candidates # {} THEN candidates ELSE {<<x, z>>}

\* spawn(type, x, z, grid, buildingSize): the walker lists it can leave
spawn(walkers, type, x, z, grid, buildingSize) ==
    LET roads == getAdjacentRoadTiles(grid, x, z, buildingSize)
        starts == IF roads # {} THEN roads
                  ELSE IF type = "soldier"
                       THEN findAdjacentEmptyTile(grid, x, z, buildingSize)
                       ELSE {}
    IN  IF starts = {} THEN {walkers}
        ELSE {Append(walkers, NewWalker(type, s, x, z)) : s \in starts}

\* WalkerSystem.tick()
Aged(w) == [w EXCEPT !.lifespan = w.lifespan - 1]

StillAlive(w) == w.lifespan > 0

\* a variant that removes a walker one tick late
WalkerTickOneLate(walkers) ==
    LET Kept(w) == w.lifespan >= 0
    IN  SelectSeq([i \in 1 .. Len(walkers) |-> Aged(walkers[i])], Kept)

WalkerTick(walkers) ==
    SelectSeq([i \in 1 .. Len(walkers) |-> Aged(walkers[i])], StillAlive)

isSoldierWalkable(grid, x, z) ==
    /\ isInBounds(x, z)
    /\ grid[<<x, z>>].building \in {"none", "road", "forum"}

\* a variant that steps along both axes at once
moveSoldierTowardDiagonally(w, tx, tz, grid) ==
    [w EXCEPT !.targetX = w.gridX + Sign(tx - w.gridX),
              !.targetZ = w.gridZ + Sign(tz - w.gridZ)]

moveSoldierToward(w, tx, tz, grid) ==
    LET dx == Sign(tx - w.gridX)
        dz == Sign(tz - w.gridZ)
        alongX == IF dx # 0 THEN << <<w.gridX + dx, w.gridZ>> >> ELSE <<>>
        alongZ == IF dz # 0 THEN << <<w.gridX, w.gridZ + dz>> >> ELSE <<>>
        options == IF Abs(tx - w.gridX) >= Abs(tz - w.gridZ)
                   THEN alongX \o alongZ
                   ELSE alongZ \o alongX
        Walkable(o) == isSoldierWalkable(grid, o[1], o[2])
        open == SelectSeq(options, Walkable)
    IN  IF open # <<>>
        THEN [w EXCEPT !.targetX = open[1][1], !.targetZ = open[1][2]]
        ELSE [w EXCEPT !.targetX = w.gridX, !.targetZ = w.gridZ]

\* soldierPatrol: the walkers it can leave
soldierPatrol(w, grid) ==
    LET candidates ==
            {n \in {<<w.gridX + DIRECTIONS[i][1], w.gridZ + DIRECTIONS[i][2]>> :
                       i \in 1 .. 4} :
                /\ ~(n[1] = w.prevX /\ n[2] = w.prevZ)
                /\ isSoldierWalkable(grid, n[1], n[2])
                /\ Manhattan(n[1], n[2], w.homeX, w.homeZ) <= SOLDIER_PATROL_RADIUS}
    IN  IF candidates # {}
        THEN {[w EXCEPT !.targetX = n[1], !.targetZ = n[2]] : n \in candidates}
        ELSE IF isSoldierWalkable(grid, w.prevX, w.prevZ)
             THEN {[w EXCEPT !.targetX = w.prevX, !.targetZ = w.prevZ]}
             ELSE {[w EXCEPT !.targetX = w.gridX, !.targetZ = w.gridZ]}

\* chooseNextTile: the walkers it can leave
chooseNextTile(w, grid, invaders) ==
    IF w.type = "soldier"
    THEN LET t == IF Len(invaders) > 0
                  THEN findNearestInvader(invaders, w.gridX, w.gridZ, 2 * GRID_SIZE)
                  ELSE 0
         IN  IF t # 0
             THEN {moveSoldierToward(w, invaders[t].x, invaders[t].z, grid)}
             ELSE soldierPatrol(w, grid)
    ELSE LET allNeighbors == getRoadNeighbors(grid, w.gridX, w.gridZ)
             neighbors == {n \in allNeighbors : ~(n[1] = w.prevX /\ n[2] = w.prevZ)}
         IN  IF neighbors = {}
             THEN IF allNeighbors # {}
                  THEN {[w EXCEPT !.targetX = w.prevX, !.targetZ = w.prevZ]}
                  ELSE {[w EXCEPT !.targetX = w.gridX, !.targetZ = w.gridZ]}
             ELSE {[w EXCEPT !.targetX = n[1], !.targetZ = n[2]] : n \in neighbors}

\* the cells serviceNearbyHouses looks at
ServiceCells(w) == {<<w.gridX, w.gridZ>>} \cup Neighbours4(w.gridX, w.gridZ)

\* a variant that leaves a countdown that is still running as it is
serviceNearbyHousesWhenDry(w, grid) ==
    [c \in Cells |->
        IF c \in ServiceCells(w) /\ grid[c].building = "house"
        THEN IF w.type = "water" /\ grid[c].waterTimer = 0
             THEN [grid[c] EXCEPT !.waterTimer = SERVICE_DURATION]
             ELSE IF w.type = "food" /\ grid[c].foodTimer = 0
                  THEN [grid[c] EXCEPT !.foodTimer = SERVICE_DURATION]
                  ELSE grid[c]
        ELSE grid[c]]

serviceNearbyHouses(w, grid) ==
    [c \in Cells |->
        IF c \in ServiceCells(w) /\ grid[c].building = "house"
        THEN IF w.type = "water" THEN [grid[c] EXCEPT !.waterTimer = SERVICE_DURATION]
             ELSE IF w.type = "food" THEN [grid[c] EXCEPT !.foodTimer = SERVICE_DURATION]
             ELSE grid[c]
        ELSE grid[c]]

Arrives(w, dt) == w.progress + dt * WALKER_SPEED_TENTHS >= PROGRESS_ONE

Arrived(w) ==
    [w EXCEPT !.prevX = w.gridX, !.prevZ = w.gridZ,
              !.gridX = w.targetX, !.gridZ = w.targetZ, !.progress = 0]

\* the grid after the arrivals of this frame, walker by walker
RECURSIVE ServiceAll(_, _, _, _)
ServiceAll(walkers, i, dt, grid) ==
    IF i > Len(walkers) THEN grid
    ELSE ServiceAll(walkers, i + 1, dt,
                    IF Arrives(walkers[i], dt)
                    THEN serviceNearbyHouses(Arrived(walkers[i]), grid)
                    ELSE grid)

\* WalkerSystem.update(dt, grid, invasionSystem): every outcome, as the walker
\* list and the grid
WalkerUpdate(walkers, dt, grid, invaders) ==
    LET grid2 == ServiceAll(walkers, 1, dt, grid)
        each == [i \in 1 .. Len(walkers) |->
                    IF Arrives(walkers[i], dt)
                    THEN chooseNextTile(Arrived(walkers[i]), grid, invaders)
                    ELSE {[walkers[i] EXCEPT
                              !.progress = @ + dt * WALKER_SPEED_TENTHS]}]
    IN  {[walkers |-> ws, grid |-> grid2] : ws \in SeqProduct(each)}

(***************************************************************************)
(* CombatSystem.ts                                                         *)
(***************************************************************************)
SOLDIER_DAMAGE == 4
SOLDIER_ENGAGE_RANGE == 5

\* the loop of CombatSystem.update over the walkers from index i on; acc
\* holds the walkers (the removed ones still in place, listed in removed),
\* the invaders and the exchanges fought
RECURSIVE CombatLoop(_, _)
CombatLoop(acc, i) ==
    IF i > Len(acc.walkers) THEN acc
    ELSE LET s == acc.walkers[i]
             t == IF s.type = "soldier"
                  THEN findNearestInvader(acc.invaders, s.gridX, s.gridZ,
                                          SOLDIER_ENGAGE_RANGE)
                  ELSE 0
         IN  IF t = 0 \/ Manhattan(s.gridX, s.gridZ,
                                   acc.invaders[t].x, acc.invaders[t].z) > 1
             THEN CombatLoop(acc, i + 1)
             ELSE LET target == acc.invaders[t]
                      hit == [target EXCEPT
                                 !.hp = target.hp - SOLDIER_DAMAGE,
                                 !.state = IF target.hp - SOLDIER_DAMAGE <= 0
                                           THEN "dead" ELSE @]
                  IN  CombatLoop(
                        [walkers |-> [acc.walkers EXCEPT ![i].hp = s.hp - target.damage],
                         invaders |-> [acc.invaders EXCEPT ![t] = hit],
                         removed |-> IF s.hp - target.damage <= 0
                                     THEN acc.removed \cup {i} ELSE acc.removed,
                         exchanges |-> Append(acc.exchanges, <<i, t>>)],
                        i + 1)

DropIndices(seq, removed) ==
    LET keep == SelectSeq([i \in 1 .. Len(seq) |-> i], LAMBDA i : i \notin removed)
    IN  [k \in 1 .. Len(keep) |-> seq[keep[k]]]

\* a variant in which no exchange marks an invader dead
CombatUpdateWithoutDeaths(walkers, invaders) ==
    LET acc == CombatLoop([walkers |-> walkers, invaders |-> invaders,
                           removed |-> {}, exchanges |-> <<>>], 1)
    IN  [walkers |-> DropIndices(acc.walkers, acc.removed),
         invaders |-> [k \in 1 .. Len(invaders) |->
                          [acc.invaders[k] EXCEPT !.state = invaders[k].state]],
         exchanges |-> acc.exchanges]

\* CombatSystem.update(walkerSystem, invasionSystem)
CombatUpdate(walkers, invaders) ==
    LET acc == CombatLoop([walkers |-> walkers, invaders |-> invaders,
                           removed |-> {}, exchanges |-> <<>>], 1)
    IN  [walkers |-> DropIndices(acc.walkers, acc.removed),
         invaders |-> acc.invaders,
         exchanges |-> acc.exchanges]

(***************************************************************************)
(* SaveSystem.ts and localStorage                                          *)
(*                                                                         *)
(* storage.available: whether localStorage can be used at all (every use   *)
(* of it throws when it cannot).  storage.item: what is stored under       *)
(* SAVE_KEY: kind "none" (getItem gives null), "garbage" (JSON.parse       *)
(* throws) or "json" (an object with a version; wellFormed tells whether   *)
(* it holds the fields of SaveData).  The timestamp is never read and is   *)
(* left out; the high score key is left out.                               *)
(***************************************************************************)
SAVE_VERSION == 1
\* AUTO_SAVE_INTERVAL = 30_000 ms, in seconds
AUTO_SAVE_SECONDS == 30

NoData ==
    [grid |-> NewGrid,
     resources |-> [gold |-> 0, food |-> 0, population |-> 0, maxPopulation |-> 0],
     score |-> [peakPopulation |-> 0, wavesSurvived |-> 0, totalGoldEarned |-> 0],
     tickCount |-> 0,
     invasion |-> [waveNumber |-> 0, ticksUntilNextWave |-> 0]]

NoItem == [kind |-> "none", version |-> 0, wellFormed |-> FALSE, data |-> NoData]

\* SaveSystem.save: the storage it leaves (setItem throwing is caught)
SaveSystemSave(storage, grid, resources, score, tickCount, invasion) ==
    IF ~storage.available THEN storage
    ELSE [storage EXCEPT !.item =
             [kind |-> "json", version |-> SAVE_VERSION, wellFormed |-> TRUE,
              data |-> [grid |-> GridToJSON(grid), resources |-> resources,
                        score |-> score, tickCount |-> tickCount,
                        invasion |-> invasion]]]

\* SaveSystem.load: "null", or "data" with the item returned
SaveSystemLoad(storage) ==
    IF ~storage.available THEN "null"
    ELSE IF storage.item.kind = "none" THEN "null"
    ELSE IF storage.item.kind = "garbage" THEN "null"
    ELSE IF storage.item.version # SAVE_VERSION THEN "null"
    ELSE "data"

\* SaveSystem.hasSave: "throws" when localStorage cannot be used
SaveSystemHasSave(storage) ==
    IF ~storage.available THEN "throws"
    ELSE IF storage.item.kind # "none" THEN "true" ELSE "false"

\* SaveSystem.clearSave
SaveSystemClearSave(storage) == [storage EXCEPT !.item = NoItem]

(***************************************************************************)
(* Game.ts                                                                 *)
(***************************************************************************)
WELL_SPAWN_INTERVAL == 4
MARKET_SPAWN_INTERVAL == 4
BARRACKS_SPAWN_INTERVAL == 6
FARM_SPAWN_INTERVAL == 5

\* TICK_INTERVAL and AUTO_SAVE_INTERVAL in frames
TickFrames == TICK_INTERVAL * DT_PER_SECOND
AutoSaveFrames == AUTO_SAVE_SECONDS * DT_PER_SECOND

\* the fields of a Game (with its systems) after the constructor
NewGame ==
    [grid |-> NewGrid,
     placedBuildings |-> <<>>,
     resources |-> [gold |-> STARTING_GOLD, food |-> 0, population |-> 0,
                    maxPopulation |-> 0],
     score |-> [peakPopulation |-> 0, wavesSurvived |-> 0, totalGoldEarned |-> 0],
     paused |-> FALSE,
     tickAccumulator |-> 0,
     tickCount |-> 0,
     reachableRoads |-> {},
     roadsDirty |-> TRUE,
     forumPos |-> <<0, 0>>,
     gameOver |-> FALSE,
     walkers |-> <<>>,
     invaders |-> <<>>,
     waveNumber |-> 0,
     ticksUntilNextWave |-> FIRST_WAVE_DELAY,
     lastSaveTime |-> 0]

\* cleanGhostTiles
cleanGhostTiles(grid, placedBuildings) ==
    [c \in Cells |->
        IF /\ grid[c].building # "none"
           /\ ~\E i \in 1 .. Len(placedBuildings) : Covers(placedBuildings[i], c[1], c[2])
        THEN [grid[c] EXCEPT !.building = "none", !.buildingHp = 0]
        ELSE grid[c]]

\* rebuildRoadNetwork
rebuildRoadNetwork(g) ==
    LET grid2 == cleanGhostTiles(g.grid, g.placedBuildings)
    IN  [g EXCEPT !.grid = grid2,
                  !.reachableRoads =
                      UNION {floodFillRoads(grid2, c[1], c[2]) : c \in ForumCells(g.forumPos)},
                  !.roadsDirty = FALSE]

ForumCenter == (GRID_SIZE \div 2) - 1

\* the forum placed, gold and invasion system reset, roads rebuilt: the part
\* start() and restart() share
WithForum(g) ==
    LET p == place(g.grid, g.placedBuildings, "forum", ForumCenter, ForumCenter,
                   INFINITE_GOLD)
    IN  rebuildRoadNetwork(
          [g EXCEPT !.forumPos = <<ForumCenter, ForumCenter>>,
                    !.grid = p.grid,
                    !.placedBuildings = p.placedBuildings,
                    !.resources.gold = STARTING_GOLD,
                    !.invaders = <<>>,
                    !.waveNumber = 0,
                    !.ticksUntilNextWave = FIRST_WAVE_DELAY])

\* start()
start(g, now) == [WithForum(g) EXCEPT !.lastSaveTime = now]

\* a variant that leaves the score of the lost session standing
restartKeepingScore(g) ==
    WithForum([g EXCEPT !.walkers = <<>>,
                        !.invaders = <<>>,
                        !.placedBuildings = <<>>,
                        !.grid = NewGrid,
                        !.resources = [gold |-> STARTING_GOLD, food |-> 0,
                                       population |-> 0, maxPopulation |-> 0],
                        !.tickCount = 0,
                        !.tickAccumulator = 0,
                        !.gameOver = FALSE])

\* restart()
restart(g) ==
    WithForum([g EXCEPT !.walkers = <<>>,
                        !.invaders = <<>>,
                        !.placedBuildings = <<>>,
                        !.grid = NewGrid,
                        !.resources = [gold |-> STARTING_GOLD, food |-> 0,
                                       population |-> 0, maxPopulation |-> 0],
                        !.score = [peakPopulation |-> 0, wavesSurvived |-> 0,
                                   totalGoldEarned |-> 0],
                        !.tickCount = 0,
                        !.tickAccumulator = 0,
                        !.gameOver = FALSE])

\* the isOrigin test of loadFromSave and simulationTick
isOrigin(grid, x, z, type) ==
    /\ (x = 0 \/ buildingAt(grid, x - 1, z) # type)
    /\ (z = 0 \/ buildingAt(grid, x, z - 1) # type)

\* loadFromSave: the forum position found by the scan (the last origin seen)
RECURSIVE FindForum(_, _, _)
FindForum(grid, i, found) ==
    IF i > Len(ScanOrder) THEN found
    ELSE LET c == ScanOrder[i]
         IN  FindForum(grid, i + 1,
                       IF grid[c].building = "forum" /\ isOrigin(grid, c[1], c[2], "forum")
                       THEN c ELSE found)

\* loadFromSave: the records rebuilt by the scan
RECURSIVE RebuildRecords(_, _, _, _)
RebuildRecords(grid, i, visited, placedBuildings) ==
    IF i > Len(ScanOrder) THEN placedBuildings
    ELSE LET c == ScanOrder[i]
             type == grid[c].building
         IN  IF type = "none" \/ c \in visited
             THEN RebuildRecords(grid, i + 1, visited, placedBuildings)
             ELSE IF BUILDINGS[type].size > 1
             THEN IF ~isOrigin(grid, c[1], c[2], type)
                  THEN RebuildRecords(grid, i + 1, visited, placedBuildings)
                  ELSE RebuildRecords(grid, i + 1,
                          visited \cup Footprint(c[1], c[2], BUILDINGS[type].size),
                          placeFromSave(placedBuildings, type, c[1], c[2]))
             ELSE RebuildRecords(grid, i + 1, visited,
                                 placeFromSave(placedBuildings, type, c[1], c[2]))

\* loadFromSave(saveData), for a save that holds the fields of SaveData
loadFromSave(g, data, now) ==
    LET grid2 == GridFromJSON(data.grid)
    IN  [rebuildRoadNetwork(
           [g EXCEPT !.grid = grid2,
                     !.forumPos = FindForum(grid2, 1, g.forumPos),
                     !.placedBuildings = RebuildRecords(grid2, 1, {}, <<>>),
                     !.resources = data.resources,
                     !.score = data.score,
                     !.tickCount = data.tickCount,
                     !.invaders = <<>>,
                     !.waveNumber = data.invasion.waveNumber,
                     !.ticksUntilNextWave = data.invasion.ticksUntilNextWave])
         EXCEPT !.lastSaveTime = now]

\* doSave
\* a variant that writes an empty score
doSaveWithoutScore(g, storage) ==
    SaveSystemSave(storage, g.grid, g.resources, NoData.score, g.tickCount,
                   [waveNumber |-> g.waveNumber,
                    ticksUntilNextWave |-> g.ticksUntilNextWave])

doSave(g, storage) ==
    SaveSystemSave(storage, g.grid, g.resources, g.score, g.tickCount,
                   [waveNumber |-> g.waveNumber,
                    ticksUntilNextWave |-> g.ticksUntilNextWave])

\* tryPlace(x, z) with selectedBuilding = type: the returned boolean and the game
tryPlace(g, type, x, z) ==
    LET p == place(g.grid, g.placedBuildings, type, x, z, g.resources.gold)
    IN  IF p.ok
        THEN [ok |-> TRUE,
              g |-> [g EXCEPT !.grid = p.grid,
                              !.placedBuildings = p.placedBuildings,
                              !.resources.gold = p.gold,
                              !.roadsDirty = IF type = "road" THEN TRUE ELSE @]]
        ELSE [ok |-> FALSE, g |-> g]

\* demolishAt(x, z)
\* a variant that leaves the road set as it was computed
demolishAtKeepingRoadSet(g, x, z) ==
    IF buildingAt(g.grid, x, z) = "none" THEN g
    ELSE LET r == removeBuildingAt(g.grid, g.placedBuildings, x, z)
         IN  [g EXCEPT !.grid = r.grid,
                       !.placedBuildings = r.placedBuildings]

demolishAt(g, x, z) ==
    IF buildingAt(g.grid, x, z) = "none" THEN g
    ELSE LET r == removeBuildingAt(g.grid, g.placedBuildings, x, z)
         IN  [g EXCEPT !.grid = r.grid,
                       !.placedBuildings = r.placedBuildings,
                       !.roadsDirty = TRUE]

\* a variant that lets the player demolish the forum
demolishClickAnywhere(g, x, z) ==
    IF buildingAt(g.grid, x, z) = "none" THEN g
    ELSE demolishAt(g, x, z)

\* onMouseDown in demolish mode
demolishClick(g, x, z) ==
    IF buildingAt(g.grid, x, z) \in {"none", "forum"} THEN g
    ELSE demolishAt(g, x, z)

\* the ageing of one tile's service countdowns and flags
AgeTile(tile) ==
    LET w == IF tile.waterTimer > 0 THEN tile.waterTimer - 1 ELSE tile.waterTimer
        f == IF tile.foodTimer > 0 THEN tile.foodTimer - 1 ELSE tile.foodTimer
    IN  [tile EXCEPT !.waterTimer = w, !.foodTimer = f,
                     !.hasWater = w > 0, !.hasFood = f > 0]

\* the lists collected by the scan of simulationTick, in scan order
ActiveFarms(g) ==
    SelectSeq(ScanOrder, LAMBDA c :
        /\ g.grid[c].building = "farm"
        /\ isOrigin(g.grid, c[1], c[2], "farm")
        /\ isBuildingConnected(g.grid, c[1], c[2], BUILDINGS["farm"].size,
                               g.reachableRoads))

ActiveWells(g) ==
    SelectSeq(ScanOrder, LAMBDA c :
        /\ g.grid[c].building = "well"
        /\ isBuildingConnected(g.grid, c[1], c[2], 1, g.reachableRoads))

ActiveMarkets(g) ==
    SelectSeq(ScanOrder, LAMBDA c :
        /\ g.grid[c].building = "market"
        /\ isBuildingConnected(g.grid, c[1], c[2], 1, g.reachableRoads))

Towers(g) == SelectSeq(ScanOrder, LAMBDA c : g.grid[c].building = "tower")

Barracks(g) ==
    SelectSeq(ScanOrder, LAMBDA c :
        /\ g.grid[c].building = "barracks"
        /\ isOrigin(g.grid, c[1], c[2], "barracks"))

\* the calls of walkerSystem.spawn made by a tick, in order
SpawnCalls(tickCount, food, wells, markets, barracks, farms) ==
    (IF tickCount % WELL_SPAWN_INTERVAL = 0
     THEN [i \in 1 .. Len(wells) |->
              [type |-> "water", x |-> wells[i][1], z |-> wells[i][2], size |-> 1]]
     ELSE <<>>)
    \o
    (IF tickCount % MARKET_SPAWN_INTERVAL = 0 /\ food > 0
     THEN [i \in 1 .. Len(markets) |->
              [type |-> "food", x |-> markets[i][1], z |-> markets[i][2], size |-> 1]]
     ELSE <<>>)
    \o
    (IF tickCount % BARRACKS_SPAWN_INTERVAL = 0
     THEN [i \in 1 .. Len(barracks) |->
              [type |-> "soldier", x |-> barracks[i][1], z |-> barracks[i][2],
               size |-> BUILDINGS["barracks"].size]]
     ELSE <<>>)
    \o
    (IF tickCount % FARM_SPAWN_INTERVAL = 0
     THEN [i \in 1 .. Len(farms) |->
              [type |-> "farmer", x |-> farms[i][1], z |-> farms[i][2],
               size |-> BUILDINGS["farm"].size]]
     ELSE <<>>)

\* the walker lists the calls from index i on can leave
RECURSIVE SpawnAll(_, _, _, _)
SpawnAll(walkers, calls, i, grid) ==
    IF i > Len(calls) THEN {walkers}
    ELSE UNION {SpawnAll(ws, calls, i + 1, grid) :
                   ws \in spawn(walkers, calls[i].type, calls[i].x, calls[i].z,
                                grid, calls[i].size)}

\* the removals of the buildings an invasion tick reports destroyed
RECURSIVE RemoveDestroyed(_, _, _)
RemoveDestroyed(g, destroyed, i) ==
    IF i > Len(destroyed) THEN g
    ELSE LET r == removeBuildingAt(g.grid, g.placedBuildings,
                                   destroyed[i][1], destroyed[i][2])
         IN  RemoveDestroyed([g EXCEPT !.grid = r.grid,
                                       !.placedBuildings = r.placedBuildings,
                                       !.roadsDirty = TRUE],
                             destroyed, i + 1)

\* the tower attacks from index i on; acc holds the invaders and the shots
RECURSIVE TowerAttacks(_, _, _)
TowerAttacks(acc, towers, i) ==
    IF i > Len(towers) THEN acc
    ELSE LET t == findNearestInvader(acc.invaders, towers[i][1], towers[i][2],
                                     TOWER_RANGE)
         IN  IF t = 0 THEN TowerAttacks(acc, towers, i + 1)
             ELSE TowerAttacks(
                    [invaders |-> [acc.invaders EXCEPT
                                      ![t] = damageInvader(acc.invaders[t], TOWER_DAMAGE)],
                     shots |-> Append(acc.shots, [from |-> towers[i], target |-> t])],
                    towers, i + 1)

\* a variant that asks for water only
MaxPopOfWateredHouses(grid) ==
    MAX_POP_PER_HOUSE *
        Cardinality({c \in Cells : grid[c].building = "house" /\ grid[c].hasWater})

\* max population: MAX_POP_PER_HOUSE for each house with both flags
MaxPop(grid) ==
    MAX_POP_PER_HOUSE *
        Cardinality({c \in Cells : /\ grid[c].building = "house"
                                   /\ grid[c].hasWater /\ grid[c].hasFood})

\* a variant in which everyone above the capacity leaves at once
NextPopulationToCapacity(population, food, maxPop) ==
    IF population > maxPop THEN maxPop
    ELSE IF food <= 0 /\ population > 0 THEN Max(0, population - GROWTH_RATE)
    ELSE IF food > 0 /\ population < maxPop THEN Min(population + GROWTH_RATE, maxPop)
    ELSE population

\* the population step
NextPopulation(population, food, maxPop) ==
    IF population > maxPop THEN Max(maxPop, population - GROWTH_RATE)
    ELSE IF food <= 0 /\ population > 0 THEN Max(0, population - GROWTH_RATE)
    ELSE IF food > 0 /\ population < maxPop THEN Min(population + GROWTH_RATE, maxPop)
    ELSE population

\* handleGameOver that leaves the game running
handleGameOverForgets(g) == g

\* handleGameOver
handleGameOver(g) == [g EXCEPT !.gameOver = TRUE]

\* what a handler that is not a tick reports
NoTick == [ran |-> FALSE]

\* simulationTick from the invasion tick's outcome iv on.  g is the game
\* after the spawns and walkerSystem.tick(); lists are the lists of the scan.
\* The report's combat field holds the walkers and the invaders as
\* CombatSystem.update finds them
TickAfterInvasion(g, iv, lists, now, storage) ==
    LET g1 == [g EXCEPT !.grid = iv.grid, !.invaders = iv.invaders,
                        !.waveNumber = iv.waveNumber,
                        !.ticksUntilNextWave = iv.ticksUntilNextWave]
        report == [ran |-> TRUE, wells |-> lists.wells, markets |-> lists.markets,
                   barracks |-> lists.barracks, farms |-> lists.farms,
                   towers |-> lists.towers, foodProduction |-> lists.foodProduction,
                   spawnCalls |-> lists.calls, waveFired |-> iv.waveFired,
                   forumDestroyed |-> iv.forumDestroyed,
                   buildingsDestroyed |-> iv.buildingsDestroyed]
    IN  IF iv.forumDestroyed
        THEN [g |-> handleGameOver(g1),
              storage |-> SaveSystemClearSave(storage),
              report |-> report @@ [combat |-> [walkers |-> <<>>, invaders |-> <<>>],
                                    exchanges |-> <<>>, shots |-> <<>>, taxIncome |-> 0]]
        ELSE LET g2 == RemoveDestroyed(g1, iv.buildingsDestroyed, 1)
                 combat == CombatUpdate(g2.walkers, g2.invaders)
                 shot == TowerAttacks([invaders |-> combat.invaders, shots |-> <<>>],
                                      lists.towers, 1)
                 maxPop == MaxPop(g2.grid)
                 population == NextPopulation(g2.resources.population,
                                              g2.resources.food, maxPop)
                 taxIncome == population * TAX_RATE
                 g3 == [g2 EXCEPT
                          !.walkers = combat.walkers,
                          !.invaders = shot.invaders,
                          !.resources.maxPopulation = maxPop,
                          !.resources.population = population,
                          !.resources.gold = @ + taxIncome,
                          !.score.peakPopulation = Max(@, population),
                          !.score.totalGoldEarned = @ + taxIncome,
                          !.score.wavesSurvived = iv.waveNumber]
                 auto == now - g3.lastSaveTime >= AutoSaveFrames
             IN  [g |-> IF auto THEN [g3 EXCEPT !.lastSaveTime = now] ELSE g3,
                  storage |-> IF auto THEN doSave(g3, storage) ELSE storage,
                  report |-> report @@ [combat |-> [walkers |-> g2.walkers,
                                                    invaders |-> g2.invaders],
                                        exchanges |-> combat.exchanges,
                                        shots |-> shot.shots,
                                        taxIncome |-> taxIncome]]

\* simulationTick(): every outcome, as the game, the storage and the report
\* of what the tick did
simulationTick(g, now, storage) ==
    IF g.gameOver THEN {[g |-> g, storage |-> storage, report |-> NoTick]}
    ELSE LET g1 == [g EXCEPT !.tickCount = @ + 1]
             g2 == IF g1.roadsDirty THEN rebuildRoadNetwork(g1) ELSE g1
             farms == ActiveFarms(g2)
             wells == ActiveWells(g2)
             markets == ActiveMarkets(g2)
             towers == Towers(g2)
             barracks == Barracks(g2)
             foodProduction == Len(farms) * FARM_FOOD_RATE
             food == g2.resources.food + 2 * foodProduction
                        - g2.resources.population * FOOD_PER_POP_HALVES
             calls == SpawnCalls(g2.tickCount, food, wells, markets, barracks, farms)
             g3 == [g2 EXCEPT !.grid = [c \in Cells |-> AgeTile(g2.grid[c])],
                              !.resources.food = food]
             lists == [wells |-> wells, markets |-> markets, barracks |-> barracks,
                       farms |-> farms, towers |-> towers,
                       foodProduction |-> foodProduction, calls |-> calls]
         IN  UNION {
               {TickAfterInvasion([g3 EXCEPT !.walkers = WalkerTick(ws)], iv, lists,
                                  now, storage) :
                  iv \in InvasionTick([invaders |-> g3.invaders,
                                       waveNumber |-> g3.waveNumber,
                                       ticksUntilNextWave |-> g3.ticksUntilNextWave],
                                      g3.grid, g3.forumPos)} :
               ws \in SpawnAll(g3.walkers, calls, 1, g3.grid)}

\* a variant in which the tick clock keeps running while the game is paused
loopCountingPausedTime(g, dt, now, storage) ==
    IF g.paused
    THEN {[g |-> [g EXCEPT !.tickAccumulator = g.tickAccumulator + dt],
           storage |-> storage, report |-> NoTick]}
    ELSE LET acc == g.tickAccumulator + dt
             ticked == IF acc >= TickFrames
                       THEN simulationTick([g EXCEPT !.tickAccumulator = acc - TickFrames],
                                           now, storage)
                       ELSE {[g |-> [g EXCEPT !.tickAccumulator = acc],
                              storage |-> storage, report |-> NoTick]}
         IN  UNION {
               IF t.g.gameOver THEN {t}
               ELSE {[t EXCEPT !.g.walkers = wu.walkers,
                               !.g.grid = wu.grid,
                               !.g.invaders = InvasionUpdate(t.g.invaders, dt, wu.grid)] :
                       wu \in WalkerUpdate(t.g.walkers, dt, t.g.grid, t.g.invaders)} :
               t \in ticked}

\* loop() once, with dt frames on the clock since the last call: every
\* outcome.  now is the time of this call.
loop(g, dt, now, storage) ==
    IF g.paused THEN {[g |-> g, storage |-> storage, report |-> NoTick]}
    ELSE LET acc == g.tickAccumulator + dt
             ticked == IF acc >= TickFrames
                       THEN simulationTick([g EXCEPT !.tickAccumulator = acc - TickFrames],
                                           now, storage)
                       ELSE {[g |-> [g EXCEPT !.tickAccumulator = acc],
                              storage |-> storage, report |-> NoTick]}
         IN  UNION {
               IF t.g.gameOver THEN {t}
               ELSE {[t EXCEPT !.g.walkers = wu.walkers,
                               !.g.grid = wu.grid,
                               !.g.invaders = InvasionUpdate(t.g.invaders, dt, wu.grid)] :
                       wu \in WalkerUpdate(t.g.walkers, dt, t.g.grid, t.g.invaders)} :
               t \in ticked}

\* togglePause
togglePause(g) == IF g.gameOver THEN g ELSE [g EXCEPT !.paused = ~g.paused]

(***************************************************************************)
(* The state                                                               *)
(*                                                                         *)
(* pc       "boot" (the page is loaded, init() has not run), "running"     *)
(*          (start() or loadFromSave() has returned), "aborted" (init()    *)
(*          threw: no game runs)                                           *)
(* storage  localStorage                                                   *)
(* now      the time, in frames since the page was loaded                  *)
(* the fields of the Game and of its systems, one variable each            *)
(* nCommands  the clicks and page reloads of the player so far              *)
(* last     the last handler that ran, with its arguments, what it         *)
(*          returned and, for a frame that ran a tick, the tick's report   *)
(***************************************************************************)
VARIABLES pc, storage, now, grid, placedBuildings, resources, score, paused,
          tickAccumulator, tickCount, reachableRoads, roadsDirty, forumPos,
          gameOver, walkers, invaders, waveNumber, ticksUntilNextWave,
          lastSaveTime, nCommands, last

gameVars == <<grid, placedBuildings, resources, score, paused, tickAccumulator,
              tickCount, reachableRoads, roadsDirty, forumPos, gameOver, walkers,
              invaders, waveNumber, ticksUntilNextWave, lastSaveTime>>

vars == <<pc, storage, now, gameVars, nCommands, last>>

\* the game as one record, and the step that leaves the game g
Game ==
    [grid |-> grid, placedBuildings |-> placedBuildings, resources |-> resources,
     score |-> score, paused |-> paused, tickAccumulator |-> tickAccumulator,
     tickCount |-> tickCount, reachableRoads |-> reachableRoads,
     roadsDirty |-> roadsDirty, forumPos |-> forumPos, gameOver |-> gameOver,
     walkers |-> walkers, invaders |-> invaders, waveNumber |-> waveNumber,
     ticksUntilNextWave |-> ticksUntilNextWave, lastSaveTime |-> lastSaveTime]

Becomes(g) ==
    /\ grid' = g.grid
    /\ placedBuildings' = g.placedBuildings
    /\ resources' = g.resources
    /\ score' = g.score
    /\ paused' = g.paused
    /\ tickAccumulator' = g.tickAccumulator
    /\ tickCount' = g.tickCount
    /\ reachableRoads' = g.reachableRoads
    /\ roadsDirty' = g.roadsDirty
    /\ forumPos' = g.forumPos
    /\ gameOver' = g.gameOver
    /\ walkers' = g.walkers
    /\ invaders' = g.invaders
    /\ waveNumber' = g.waveNumber
    /\ ticksUntilNextWave' = g.ticksUntilNextWave
    /\ lastSaveTime' = g.lastSaveTime

\* the game is g
Holds(g) ==
    /\ grid = g.grid
    /\ placedBuildings = g.placedBuildings
    /\ resources = g.resources
    /\ score = g.score
    /\ paused = g.paused
    /\ tickAccumulator = g.tickAccumulator
    /\ tickCount = g.tickCount
    /\ reachableRoads = g.reachableRoads
    /\ roadsDirty = g.roadsDirty
    /\ forumPos = g.forumPos
    /\ gameOver = g.gameOver
    /\ walkers = g.walkers
    /\ invaders = g.invaders
    /\ waveNumber = g.waveNumber
    /\ ticksUntilNextWave = g.ticksUntilNextWave
    /\ lastSaveTime = g.lastSaveTime

Did(op, type, x, z, ok, report) ==
    [op |-> op, type |-> type, x |-> x, z |-> z, origin |-> <<x, z>>, ok |-> ok,
     report |-> report]

\* the page loaded with the given localStorage: new Game(canvas), init() not
\* yet run
PageLoaded(storages) ==
    /\ pc = "boot"
    /\ storage \in storages
    /\ now = 0
    /\ Holds(NewGame)
    /\ nCommands = 0
    /\ last = Did("load page", "none", 0, 0, TRUE, NoTick)

(***************************************************************************)
(* main.ts: init(), with the start screen's answer                         *)
(***************************************************************************)
Boot(choice) ==
    /\ pc = "boot"
    /\ LET has == SaveSystemHasSave(storage)
           loaded == IF has = "true" /\ choice = "continue"
                     THEN SaveSystemLoad(storage) ELSE "null"
       IN  CASE has = "throws" ->
                  \* hasSave() throws, init() rejects: start() is never called
                  /\ pc' = "aborted"
                  /\ last' = Did("init", "none", 0, 0, FALSE, NoTick)
                  /\ UNCHANGED <<storage, gameVars>>
             [] has = "true" /\ loaded = "data" /\ ~storage.item.wellFormed ->
                  \* loadFromSave throws in Grid.fromJSON
                  /\ pc' = "aborted"
                  /\ last' = Did("init", "none", 0, 0, FALSE, NoTick)
                  /\ UNCHANGED <<storage, gameVars>>
             [] has = "true" /\ loaded = "data" /\ storage.item.wellFormed ->
                  /\ pc' = "running"
                  /\ last' = Did("loadFromSave", "none", 0, 0, TRUE, NoTick)
                  /\ Becomes(loadFromSave(Game, storage.item.data, now))
                  /\ UNCHANGED storage
             [] has = "true" /\ loaded = "null" ->
                  /\ pc' = "running"
                  /\ last' = Did("start", "none", 0, 0, TRUE, NoTick)
                  /\ storage' = SaveSystemClearSave(storage)
                  /\ Becomes(start(Game, now))
             [] has = "false" ->
                  /\ pc' = "running"
                  /\ last' = Did("start", "none", 0, 0, TRUE, NoTick)
                  /\ Becomes(start(Game, now))
                  /\ UNCHANGED storage
    /\ UNCHANGED <<now, nCommands>>

(***************************************************************************)
(* Game.ts: the handlers                                                   *)
(***************************************************************************)
\* a click (or a drag step) with the building type selected: tryPlace(x, z)
TryPlace(type, x, z) ==
    /\ pc = "running"
    /\ ~gameOver
    /\ LET r == tryPlace(Game, type, x, z)
       IN  /\ Becomes(r.g)
           /\ last' = Did("tryPlace", type, x, z, r.ok, NoTick)
    /\ nCommands' = nCommands + 1
    /\ UNCHANGED <<pc, storage, now>>

\* a click in demolish mode
Demolish(x, z) ==
    /\ pc = "running"
    /\ ~gameOver
    /\ Becomes(demolishClick(Game, x, z))
    /\ LET idx == findIndexAt(placedBuildings, x, z)
           removes == buildingAt(grid, x, z) \notin {"none", "forum"}
       IN  last' = [Did("demolish", buildingAt(grid, x, z), x, z, removes, NoTick)
                      EXCEPT !.origin = IF removes /\ idx # 0
                                        THEN <<placedBuildings[idx].x,
                                               placedBuildings[idx].z>>
                                        ELSE @]
    /\ nCommands' = nCommands + 1
    /\ UNCHANGED <<pc, storage, now>>

\* one animation frame: loop(), dt frames after the last one
Frame(dt) ==
    /\ pc = "running"
    /\ \E out \in loop(Game, dt, now + dt, storage) :
          /\ Becomes(out.g)
          /\ storage' = out.storage
          /\ last' = Did("loop", "none", 0, 0, TRUE, out.report)
    /\ now' = now + dt
    /\ UNCHANGED <<pc, nCommands>>

\* the space bar
TogglePause ==
    /\ pc = "running"
    /\ ~gameOver
    /\ Becomes(togglePause(Game))
    /\ last' = Did("togglePause", "none", 0, 0, TRUE, NoTick)
    /\ UNCHANGED <<pc, storage, now, nCommands>>

\* the button of the game-over screen: restart(), saveSystem.resetTimer()
Restart ==
    /\ pc = "running"
    /\ gameOver
    /\ Becomes([restart(Game) EXCEPT !.lastSaveTime = now])
    /\ last' = Did("restart", "none", 0, 0, TRUE, NoTick)
    /\ UNCHANGED <<pc, storage, now, nCommands>>

\* the page is left and loaded again: beforeunload saves unless the game is
\* over, then a new Game is constructed and init() is to run
Reload ==
    /\ pc = "running"
    /\ storage' = IF gameOver THEN storage ELSE doSave(Game, storage)
    /\ pc' = "boot"
    /\ now' = 0
    /\ Becomes(NewGame)
    /\ last' = Did("reload", "none", 0, 0, ~gameOver, NoTick)
    /\ nCommands' = nCommands + 1

(***************************************************************************)
(* What localStorage can hold when the page is loaded                      *)
(***************************************************************************)
Stored(item) == [available |-> TRUE, item |-> item]

\* nothing stored
EmptyStorage == Stored(NoItem)

\* the save a session leaves whose only building is the forum, with the given
\* gold, tick count and wave state
SessionSave(gold, ticks, wave, untilNext) ==
    doSave([start(NewGame, 0) EXCEPT !.resources.gold = gold,
                                     !.tickCount = ticks,
                                     !.waveNumber = wave,
                                     !.ticksUntilNextWave = untilNext,
                                     !.score.wavesSurvived = wave],
           EmptyStorage)

\* the tick count at which wave number wave (0-based) is one tick away
RECURSIVE EveOfWave(_)
EveOfWave(wave) ==
    IF wave = 0 THEN FIRST_WAVE_DELAY - 1
    ELSE EveOfWave(wave - 1)
           + Max(MIN_WAVE_INTERVAL, BASE_WAVE_INTERVAL - wave * WAVE_ACCELERATION)

\* a session saved one tick before the wave numbered SiegeWave + 1 spawns
SiegeWave == 3
SiegeGold == 60
SiegeSave == SessionSave(SiegeGold, EveOfWave(SiegeWave), SiegeWave, 1)

(***************************************************************************)
(* Building and demolishing, with and without a wave about to arrive       *)
(***************************************************************************)
MaxCommands == 2
MaxFrames == 9

\* the cells the player clicks: beside the forum on the paths of the invaders
\* from the east and the south, and the far corner of the map
ClickCells ==
    {<<ForumCenter + 2, ForumCenter>>, <<ForumCenter + 2, ForumCenter + 1>>,
     <<ForumCenter + 1, ForumCenter + 2>>, <<ForumCenter + 2, ForumCenter + 2>>,
     <<ForumCenter + 1, ForumCenter + 1>>, <<GRID_SIZE - 1, GRID_SIZE - 1>>}

PlaceTypes == BuildingTypes \ {"forum"}

Init == PageLoaded({EmptyStorage, SiegeSave})

Next ==
    \/ \E choice \in {"continue", "new"} : Boot(choice)
    \/ \E type \in PlaceTypes, c \in ClickCells :
          nCommands < MaxCommands /\ TryPlace(type, c[1], c[2])
    \/ \E c \in ClickCells : nCommands < MaxCommands /\ Demolish(c[1], c[2])
    \/ now < MaxFrames /\ Frame(1)

Spec == Init /\ [][Next]_vars

(***************************************************************************)
(* Placement and removal                                                   *)
(***************************************************************************)
\* some cell of the footprint is off the map or holds a building
Blocked(type, x, z) ==
    \E dx \in 0 .. (BUILDINGS[type].size - 1), dz \in 0 .. (BUILDINGS[type].size - 1) :
        \/ x + dx < 0 \/ x + dx >= GRID_SIZE
        \/ z + dz < 0 \/ z + dz >= GRID_SIZE
        \/ grid[<<x + dx, z + dz>>].building # "none"

\* C1: a placement made with less gold than the kind costs, or with a cell of
\* the footprint out of bounds or occupied, returns false and leaves every
\* tile, the gold and the list of placed buildings as they were
C1_FailedPlaceChangesNothing ==
    [][(/\ last'.op = "tryPlace"
        /\ nCommands' = nCommands + 1
        /\ \/ resources.gold < BUILDINGS[last'.type].cost
           \/ Blocked(last'.type, last'.x, last'.z))
       => (/\ last'.ok = FALSE
           /\ grid' = grid
           /\ resources' = resources
           /\ placedBuildings' = placedBuildings)]_vars

\* a placement has just failed for want of gold on free cells, with a
\* building standing
C1_Witness ==
    /\ last.op = "tryPlace"
    /\ ~last.ok
    /\ resources.gold < BUILDINGS[last.type].cost
    /\ ~Blocked(last.type, last.x, last.z)
    /\ Len(placedBuildings) >= 2

\* the cells a record covers
RecordCells(b) ==
    {<<b.x + dx, b.z + dz>> : dx \in 0 .. (BUILDINGS[b.type].size - 1),
                              dz \in 0 .. (BUILDINGS[b.type].size - 1)}

\* C2: no two recorded buildings have footprints that share a cell
C2_NoOverlap ==
    \A i, j \in 1 .. Len(placedBuildings) :
        i # j => RecordCells(placedBuildings[i]) \cap RecordCells(placedBuildings[j]) = {}

\* invaders have just destroyed a building the player placed, after the
\* player's last command, and other buildings are recorded
C2_Witness ==
    /\ last.op = "loop"
    /\ last.report.ran
    /\ last.report.buildingsDestroyed # <<>>
    /\ Len(placedBuildings) >= 2
    /\ nCommands = MaxCommands

\* C3: every tile a recorded building covers reports the building's kind and
\* the same nonzero hit points as the building's origin tile
C3_FootprintUniform ==
    pc = "running" =>
        \A i \in 1 .. Len(placedBuildings) :
            LET b == placedBuildings[i]
            IN  \A c \in RecordCells(b) :
                    /\ grid[c].building = b.type
                    /\ grid[c].buildingHp = grid[<<b.x, b.z>>].buildingHp
                    /\ grid[c].buildingHp > 0

\* C4: a removal at any cell of a building's footprint empties every cell of
\* the footprint, removes that building's record and no other, and leaves the
\* other tiles and the resources as they were
C4_RemoveFrame ==
    [][(/\ last'.op = "demolish"
        /\ nCommands' = nCommands + 1
        /\ buildingAt(grid, last'.x, last'.z) \notin {"none", "forum"})
       => \E i \in 1 .. Len(placedBuildings) :
            LET b == placedBuildings[i]
            IN  /\ <<last'.x, last'.z>> \in RecordCells(b)
                /\ \A c \in Cells :
                      grid'[c] = IF c \in RecordCells(b)
                                 THEN [grid[c] EXCEPT !.building = "none",
                                                      !.buildingHp = 0]
                                 ELSE grid[c]
                /\ Len(placedBuildings') = Len(placedBuildings) - 1
                /\ \A k \in 1 .. Len(placedBuildings') :
                      placedBuildings'[k] = placedBuildings[IF k < i THEN k ELSE k + 1]
                /\ resources' = resources]_vars

\* a two-by-two building has just been removed by a click on a cell that is
\* not its origin, with the forum standing beside it
C4_Witness ==
    /\ last.op = "demolish"
    /\ last.ok
    /\ BUILDINGS[last.type].size = 2
    /\ last.origin # <<last.x, last.z>>
    /\ Len(placedBuildings) >= 1
    /\ \E c \in ForumCells(forumPos) : Manhattan(c[1], c[2], last.x, last.z) = 1

\* C5: a removal at a cell that holds no building changes nothing, through
\* removeBuildingAt and through demolishAt
C5_RemoveEmptyNoOp ==
    pc = "running" =>
        \A c \in Cells :
            grid[c].building = "none" =>
                /\ removeBuildingAt(grid, placedBuildings, c[1], c[2])
                      = [grid |-> grid, placedBuildings |-> placedBuildings]
                /\ demolishAt(Game, c[1], c[2]) = Game

\* a building has just been removed by a click: the clicked cell is empty
\* now, and the forum stands next to it
C5_Witness ==
    /\ last.op = "demolish"
    /\ last.ok
    /\ grid[<<last.x, last.z>>].building = "none"
    /\ \E c \in ForumCells(forumPos) :
          /\ Manhattan(c[1], c[2], last.x, last.z) = 1
          /\ grid[c].building = "forum"

(***************************************************************************)
(* Roads and producers: a session continued one tick before the tick on    *)
(* which wells, markets, barracks and farms all spawn                      *)
(***************************************************************************)
MaxRoadCommands == 3
MaxRoadFrames == 9
RoadsTick == 58
RoadsWave == 2
RoadsFoodHalves == 8

RoadsSave ==
    LET saved == SessionSave(STARTING_GOLD, RoadsTick, RoadsWave,
                             EveOfWave(RoadsWave) + 1 - RoadsTick)
    IN  [saved EXCEPT !.item.data.resources.food = RoadsFoodHalves]

\* a cell beside the forum, and cells that touch it and not the forum
RoadCells ==
    {<<ForumCenter + 1, ForumCenter + 2>>, <<ForumCenter + 2, ForumCenter>>,
     <<ForumCenter + 2, ForumCenter + 2>>}

RoadTypes == {"road", "farm", "well", "market", "barracks"}

InitRoads == PageLoaded({RoadsSave})

NextRoads ==
    \/ Boot("continue")
    \/ \E type \in RoadTypes, c \in RoadCells :
          nCommands < MaxRoadCommands /\ TryPlace(type, c[1], c[2])
    \/ \E c \in RoadCells : nCommands < MaxRoadCommands /\ Demolish(c[1], c[2])
    \/ now < MaxRoadFrames /\ Frame(1)

SpecRoads == InitRoads /\ [][NextRoads]_vars

\* the road and forum cells joined to the forum by a chain of 4-adjacent road
\* and forum cells
RECURSIVE Chain(_, _)
Chain(g, joined) ==
    LET more == {c \in Cells :
                    /\ g[c].building \in {"road", "forum"}
                    /\ c \notin joined
                    /\ \E d \in joined : Manhattan(c[1], c[2], d[1], d[2]) = 1}
    IN  IF more = {} THEN joined ELSE Chain(g, joined \cup more)

\* the recorded building b touches the chain
Linked(g, b) ==
    \E c \in RecordCells(b), d \in Chain(g, {c \in Cells : g[c].building = "forum"}) :
        Manhattan(c[1], c[2], d[1], d[2]) = 1

\* the list a tick's report keeps for the kind
ListedAs(report, type) ==
    CASE type = "farm" -> report.farms
      [] type = "well" -> report.wells
      [] type = "market" -> report.markets
      [] type = "barracks" -> report.barracks

InSeq(e, seq) == \E k \in 1 .. Len(seq) : seq[k] = e

\* C6: in every tick a recorded farm, well or market is treated as connected
\* exactly when a cell beside its footprint is joined to the forum by road
\* cells, so from the first tick after a road is placed or removed
C6_ConnectedIffLinked ==
    [][(last'.op = "loop" /\ last'.report.ran)
       => \A i \in 1 .. Len(placedBuildings) :
            LET b == placedBuildings[i]
            IN  b.type \in {"farm", "well", "market"}
                => (InSeq(<<b.x, b.z>>, ListedAs(last'.report, b.type))
                      <=> Linked(grid, b))]_vars

\* a tick has run with a recorded farm that is linked to the forum and is
\* not in the tick's list of farms (two farms, one above the other)
C6_Witness ==
    /\ last.op = "loop"
    /\ last.report.ran
    /\ \E i \in 1 .. Len(placedBuildings) :
          /\ placedBuildings[i].type = "farm"
          /\ Linked(grid, placedBuildings[i])
          /\ ~InSeq(<<placedBuildings[i].x, placedBuildings[i].z>>, last.report.farms)

\* the recorded building b has a cell beside its footprint in the road set
Touches(b, roads) ==
    \E c \in RecordCells(b), d \in roads : Manhattan(c[1], c[2], d[1], d[2]) = 1

\* the tick has called walkerSystem.spawn for b
Spawned(report, b) ==
    \E k \in 1 .. Len(report.spawnCalls) :
        report.spawnCalls[k].x = b.x /\ report.spawnCalls[k].z = b.z

\* the tick's report has b among the active buildings of its kind, or a spawn
\* call made for b
Active(report, b) ==
    InSeq(<<b.x, b.z>>, ListedAs(report, b.type)) \/ Spawned(report, b)

ServiceWalkers(ws) == Cardinality({k \in 1 .. Len(ws) : ws[k].type # "soldier"})

ProducersTouching(records, roads) ==
    {i \in 1 .. Len(records) :
        records[i].type \in {"farm", "well", "market"} /\ Touches(records[i], roads)}

FarmsTouching(records, roads) ==
    {i \in 1 .. Len(records) : records[i].type = "farm" /\ Touches(records[i], roads)}

MaxSaveCommands == 3
MaxSaveFrames == 4

\* localStorage cannot be used: every call on it throws
Unavailable == [available |-> FALSE, item |-> NoItem]

\* the stored text is not JSON
Garbage ==
    Stored([kind |-> "garbage", version |-> 0, wellFormed |-> FALSE, data |-> NoData])

\* a save of another schema version
OtherVersion == Stored([SiegeSave.item EXCEPT !.version = SAVE_VERSION + 1])

\* JSON of the current version that lacks the fields of SaveData
Malformed ==
    Stored([kind |-> "json", version |-> SAVE_VERSION, wellFormed |-> FALSE,
            data |-> NoData])

BootStorages == {Unavailable, EmptyStorage, Garbage, OtherVersion, Malformed, SiegeSave}

\* the cells of two farms, one above the other, east of the forum
SaveCells == {<<ForumCenter + 2, ForumCenter>>, <<ForumCenter + 2, ForumCenter + 2>>}

SaveTypes == {"farm", "house"}

InitSave == PageLoaded(BootStorages)

NextSave ==
    \/ \E choice \in {"continue", "new"} : Boot(choice)
    \/ \E type \in SaveTypes, c \in SaveCells :
          nCommands < MaxSaveCommands /\ TryPlace(type, c[1], c[2])
    \/ now < MaxSaveFrames /\ Frame(1)
    \/ TogglePause
    \/ nCommands < MaxSaveCommands /\ Reload

SpecSave == InitSave /\ [][NextSave]_vars

\* some building tile of the grid is covered by no record of that kind
Unrecorded(g, records) ==
    \E c \in Cells :
        /\ g[c].building # "none"
        /\ ~\E i \in 1 .. Len(records) :
              records[i].type = g[c].building /\ c \in RecordCells(records[i])

\* C8: the snapshot written when the page is left holds the grid, resources,
\* score, tick count and wave state of the game, and the game loaded from a
\* snapshot has the snapshot's grid, a record for every building of it, and
\* its resources, score, tick count and wave state
C8_RoundTrip ==
    [][/\ (last'.op = "reload" /\ last'.ok)
          => storage'.item.data
               = [grid |-> grid, resources |-> resources, score |-> score,
                  tickCount |-> tickCount,
                  invasion |-> [waveNumber |-> waveNumber,
                                ticksUntilNextWave |-> ticksUntilNextWave]]
       /\ (pc = "boot" /\ last'.op = "loadFromSave")
          => /\ grid' = storage.item.data.grid
             /\ ~Unrecorded(storage.item.data.grid, placedBuildings')
             /\ resources' = storage.item.data.resources
             /\ score' = storage.item.data.score
             /\ tickCount' = storage.item.data.tickCount
             /\ waveNumber' = storage.item.data.invasion.waveNumber
             /\ ticksUntilNextWave' = storage.item.data.invasion.ticksUntilNextWave]_vars

\* localStorage holds nothing the game can continue from
Unusable(st) ==
    \/ ~st.available
    \/ st.item.kind \in {"none", "garbage"}
    \/ st.item.version # SAVE_VERSION
    \/ ~st.item.wellFormed

\* C9: whatever localStorage holds, init() ends with a running game, and with
\* a new game when it holds nothing the game can continue from
C9_StartupNeverAborts ==
    [][(pc = "boot" /\ pc' # "boot")
       => /\ pc' = "running"
          /\ Unusable(storage)
             => /\ last'.op = "start"
                /\ tickCount' = 0
                /\ resources' = [gold |-> STARTING_GOLD, food |-> 0, population |-> 0,
                                 maxPopulation |-> 0]
                /\ \A c \in Cells : grid'[c].building \in {"none", "forum"}]_vars

(***************************************************************************)
(* The siege: a session continued one tick before a wave, with a well on a *)
(* road and the forum already damaged on the tiles invaders reach          *)
(***************************************************************************)
MaxSiegeFrames == 26
SiegeForumHp == 18

FortSave ==
    LET g0 == [start(NewGame, 0) EXCEPT !.tickCount = EveOfWave(SiegeWave),
                                        !.waveNumber = SiegeWave,
                                        !.ticksUntilNextWave = 1,
                                        !.score.wavesSurvived = SiegeWave]
        g1 == tryPlace(g0, "road", ForumCenter + 1, ForumCenter + 2).g
        g2 == tryPlace(g1, "well", ForumCenter + 2, ForumCenter + 2).g
        hit == ForumCells(g2.forumPos) \ {g2.forumPos}
    IN  doSave([g2 EXCEPT !.grid = [c \in Cells |->
                                      IF c \in hit
                                      THEN [g2.grid[c] EXCEPT !.buildingHp = SiegeForumHp]
                                      ELSE g2.grid[c]]],
               EmptyStorage)

InitSiege == PageLoaded({FortSave})

NextSiege ==
    \/ Boot("continue")
    \/ now < MaxSiegeFrames /\ Frame(1)
    \/ TogglePause
    \/ Restart

SpecSiege == InitSiege /\ [][NextSiege]_vars

\* C10: the tick in which an attack leaves a forum tile with no hit points
\* ends the game, and from then until restart() no handler changes the
\* resources, the score or the tick count, or moves a walker or an invader
C10_GameOverFreezes ==
    [][/\ (last'.op = "loop" /\ last'.report.ran
           /\ \E c \in Cells : grid'[c].building = "forum" /\ grid'[c].buildingHp <= 0)
          => (gameOver' /\ last'.report.forumDestroyed)
       /\ (gameOver /\ last'.op # "restart")
          => /\ gameOver'
             /\ resources' = resources
             /\ score' = score
             /\ tickCount' = tickCount
             /\ walkers' = walkers
             /\ invaders' = invaders
             /\ grid' = grid]_vars

\* the game is over with a walker and invaders on the map, and a frame has
\* just carried the clock over a tick boundary
C10_Witness ==
    /\ gameOver
    /\ ~paused
    /\ last.op = "loop"
    /\ ~last.report.ran
    /\ tickAccumulator = 0
    /\ walkers # <<>>
    /\ invaders # <<>>
    /\ \E c \in Cells : grid[c].building = "forum" /\ grid[c].buildingHp <= 0

(***************************************************************************)
(* The battle: sessions saved one tick before the first wave and before    *)
(* the wave numbered BattleWave + 1, with a barracks south-east of the     *)
(* forum and a well (worn down by the earlier waves in the later session)  *)
(* on the eastern approach.  The wave spawns on the first tick, the        *)
(* barracks sends soldiers on its cadence, and the player may add one      *)
(* tower.  The battle is followed until no invader is listed.              *)
(***************************************************************************)
BattleWave == 3
BattleGold == 60
BattleWellHp == 3
MaxBattleFrames == 48
MaxBattleCommands == 1

\* the session saved on the eve of wave number wave, the well at wellHp
BattleSave(wave, wellHp) ==
    LET g0 == [start(NewGame, 0) EXCEPT !.tickCount = EveOfWave(wave),
                                        !.waveNumber = wave,
                                        !.ticksUntilNextWave = 1,
                                        !.score.wavesSurvived = wave]
        g1 == tryPlace(g0, "barracks", ForumCenter + 2, ForumCenter + 2).g
        g2 == tryPlace(g1, "well", ForumCenter + 2, ForumCenter + 1).g
        well == <<ForumCenter + 2, ForumCenter + 1>>
    IN  doSave([g2 EXCEPT !.grid[well].buildingHp = wellHp,
                          !.resources.gold = BattleGold],
               EmptyStorage)

InitBattle ==
    PageLoaded({BattleSave(0, BUILDINGS["well"].hp),
                BattleSave(BattleWave, BattleWellHp)})

\* the wave is about to spawn or some of its invaders are still listed
BattleOn == ticksUntilNextWave = 1 \/ invaders # <<>>

NextBattle ==
    \/ Boot("continue")
    \/ now < MaxBattleFrames /\ BattleOn /\ Frame(1)
    \/ nCommands < MaxBattleCommands
          /\ TryPlace("tower", ForumCenter - 1, ForumCenter - 1)

SpecBattle == InitBattle /\ [][NextBattle]_vars

\* the invaders that are not yet dead, in list order
Alive(list) == SelectSeq(list, NotDead)

(***************************************************************************)
(* C11: the states of an invader                                           *)
(***************************************************************************)
\* the invaders of this state that are still listed in the next one, in
\* list order: a tick drops the dead ones before anything else can kill,
\* and only a tick adds or drops invaders while the session lasts
Tracked ==
    IF last'.op = "loop"
    THEN IF last'.report.ran THEN Alive(invaders) ELSE invaders
    ELSE IF invaders' = <<>> THEN <<>> ELSE invaders

\* a is an invader now and b the same invader in the next state
InvaderStep(a, b) ==
    \/ a.state = b.state
    \/ /\ a.state = "moving" /\ b.state = "attacking"
       /\ b.x = a.targetX /\ b.z = a.targetZ
       /\ buildingAt(grid', b.x, b.z) \notin {"none", "road"}
    \/ /\ a.state = "attacking" /\ b.state = "moving"
       /\ last'.report.ran
       /\ InSeq(<<a.x, a.z>>, last'.report.buildingsDestroyed)
       /\ buildingAt(grid, a.x, a.z) \notin {"none", "forum"}
       /\ grid[<<a.x, a.z>>].buildingHp > 0
       /\ grid[<<a.x, a.z>>].buildingHp <= a.damage * Len(invaders)
       /\ buildingAt(grid', a.x, a.z) = "none"
    \/ /\ a.state \in {"moving", "attacking"} /\ b.state = "dead"
       /\ a.hp > 0 /\ b.hp <= 0

\* C11: an invader's state changes only from moving to attacking (on
\* arriving at a cell that holds a building other than a road), from
\* attacking to moving (in a tick in which the building under it, not the
\* forum, is destroyed) and from moving or attacking to dead (its hit points
\* fall to 0 or below); a dead invader stays dead while it is listed, and an
\* invader is dead exactly when its hit points are 0 or below
C11_InvaderTransitions ==
    [][/\ Len(invaders') >= Len(Tracked)
       /\ \A k \in 1 .. Len(Tracked) : InvaderStep(Tracked[k], invaders'[k])
       /\ \A k \in 1 .. Len(invaders') :
             /\ invaders'[k].state \in {"moving", "attacking", "dead"}
             /\ invaders'[k].state = "dead" <=> invaders'[k].hp <= 0]_vars

\* a building fell to the invaders, one of them has been killed and another
\* is attacking
C11_Witness ==
    /\ pc = "running"
    /\ buildingAt(grid, ForumCenter + 2, ForumCenter + 1) = "none"
    /\ \E i, j \in 1 .. Len(invaders) :
          /\ invaders[i].state = "dead" /\ invaders[i].hp <= 0
          /\ invaders[j].state = "attacking"

(***************************************************************************)
(* The wave schedule: a new session left to run with one tick per frame    *)
(* (frames as long as the tick interval), and sessions saved one tick      *)
(* before a wave around the one at which the interval reaches its floor.   *)
(***************************************************************************)
FloorWave == 13
MaxWaveFrames == 100

InitWaves ==
    PageLoaded({EmptyStorage} \cup
               {SessionSave(STARTING_GOLD, EveOfWave(w), w, 1) :
                   w \in (FloorWave - 1) .. (FloorWave + 1)})

NextWaves ==
    \/ Boot("continue")
    \/ now < MaxWaveFrames * TickFrames /\ Frame(TickFrames)
    \/ Restart

SpecWaves == InitWaves /\ [][NextWaves]_vars

(***************************************************************************)
(* C12: the wave schedule                                                  *)
(***************************************************************************)
\* the ticks from the firing of wave n to the next firing
WaveGap(n) == IF 25 - n > 12 THEN 25 - n ELSE 12

\* the tick on which wave n fires
RECURSIVE FiringTick(_)
FiringTick(n) == IF n = 1 THEN 30 ELSE FiringTick(n - 1) + WaveGap(n - 1)

\* the step is a simulation tick that ran
Ticked == last'.op = "loop" /\ last'.report.ran

\* C12: the first wave fires on tick 30 and wave n + 1 fires max(12, 25 - n)
\* ticks after wave n; the intervals are below the first delay and strictly
\* decrease until they stay at 12; the countdown is positive after every
\* tick; the wave number grows by one in the tick of a firing and changes in
\* no other step of a session (start, load and restart set the schedule)
C12_WaveSchedule ==
    [][IF Ticked
       THEN /\ ticksUntilNextWave' > 0
            /\ last'.report.waveFired <=>
                  (waveNumber' > 0 /\ tickCount' = FiringTick(waveNumber'))
            /\ IF last'.report.waveFired
               THEN /\ waveNumber' = waveNumber + 1
                    /\ ticksUntilNextWave' = WaveGap(waveNumber')
               ELSE /\ waveNumber' = waveNumber
                    /\ ticksUntilNextWave' = ticksUntilNextWave - 1
            /\ tickCount' + ticksUntilNextWave' = FiringTick(waveNumber' + 1)
            /\ \A n \in 1 .. waveNumber' :
                  /\ NextWaveInterval(n) = WaveGap(n)
                  /\ NextWaveInterval(n) < FIRST_WAVE_DELAY
                  /\ \/ NextWaveInterval(n + 1) < NextWaveInterval(n)
                     \/ /\ NextWaveInterval(n) = MIN_WAVE_INTERVAL
                        /\ NextWaveInterval(n + 1) = MIN_WAVE_INTERVAL
       ELSE \/ last'.op \in {"start", "loadFromSave", "restart"}
            \/ /\ waveNumber' = waveNumber
               /\ ticksUntilNextWave' = ticksUntilNextWave]_vars

\* a new session has just fired its second wave, 24 ticks after the first
C12_Witness ==
    /\ last.op = "loop" /\ last.report.ran /\ last.report.waveFired
    /\ waveNumber = 2
    /\ tickCount = 54
    /\ ticksUntilNextWave = 23

(***************************************************************************)
(* C13: the size and strength of a wave                                    *)
(***************************************************************************)
\* the invaders the tick of this step has added to the list
FreshInvaders ==
    SubSeq(invaders', Len(Alive(invaders)) + 1, Len(invaders'))

\* C13: the wave fired when w waves have fired before has floor(1 + 1.5 w)
\* invaders, each with 8 + 3 w hit points and damage floor(2 + 0.5 w), and
\* none of the three is lower than for the wave before
C13_WaveStrength ==
    [][(Ticked /\ last'.report.waveFired) =>
          LET w == waveNumber
          IN  /\ Len(FreshInvaders) = (2 + 3 * w) \div 2
              /\ \A k \in 1 .. Len(FreshInvaders) :
                    /\ FreshInvaders[k].hp = 8 + 3 * w
                    /\ FreshInvaders[k].maxHp = 8 + 3 * w
                    /\ FreshInvaders[k].damage = (4 + w) \div 2
              /\ \A v \in 0 .. (w - 1) :
                    /\ WaveCount(v) <= WaveCount(v + 1)
                    /\ NewInvader(0, 0, v).hp <= NewInvader(0, 0, v + 1).hp
                    /\ NewInvader(0, 0, v).damage <= NewInvader(0, 0, v + 1).damage]_vars

\* the fourth wave of a new session has just spawned: five invaders of 17
\* hit points and damage 3
C13_Witness ==
    /\ last.op = "loop" /\ last.report.ran /\ last.report.waveFired
    /\ waveNumber = 4
    /\ Cardinality({k \in 1 .. Len(invaders) :
                       /\ invaders[k].hp = 17
                       /\ invaders[k].damage = 3}) = 5

(***************************************************************************)
(* The town: a session saved after the first wave, on the eve of tick 32   *)
(* (a well and market cadence tick), with a road beside the forum, a well, *)
(* a market, a farm and one serviced house along it.  The town has lost    *)
(* houses: its population is above what the remaining house holds and the  *)
(* food stock is nearly spent.  The player may build a house on the free   *)
(* cell at the road's end, demolish the old one and reload the page.       *)
(***************************************************************************)
TownTick == 31
TownGold == 100
TownPopulation == 14
TownPeak == 20
TownEarned == 300
TownFoodHalves == 4
TownTimer == 7
MaxTownFrames == 15
MaxTownCommands == 2

\* the cells of the town, from the forum's corner
OldHouse == <<ForumCenter + 1, ForumCenter - 1>>
FreeLot == <<ForumCenter + 3, ForumCenter - 1>>

TownSave ==
    LET g0 == [start(NewGame, 0) EXCEPT !.tickCount = TownTick,
                                        !.waveNumber = 1,
                                        !.ticksUntilNextWave = EveOfWave(1) + 1 - TownTick]
        g1 == tryPlace(g0, "road", ForumCenter + 2, ForumCenter - 1).g
        g2 == tryPlace(g1, "road", ForumCenter + 2, ForumCenter).g
        g3 == tryPlace(g2, "road", ForumCenter + 2, ForumCenter + 1).g
        g4 == tryPlace(g3, "house", OldHouse[1], OldHouse[2]).g
        g5 == tryPlace(g4, "well", ForumCenter + 3, ForumCenter).g
        g6 == tryPlace(g5, "market", ForumCenter + 3, ForumCenter + 1).g
        g7 == tryPlace(g6, "farm", ForumCenter + 2, ForumCenter + 2).g
    IN  doSave([g7 EXCEPT
                  !.grid[OldHouse] = [@ EXCEPT !.waterTimer = TownTimer,
                                               !.foodTimer = TownTimer,
                                               !.hasWater = TRUE, !.hasFood = TRUE],
                  !.resources = [gold |-> TownGold, food |-> TownFoodHalves,
                                 population |-> TownPopulation,
                                 maxPopulation |-> MAX_POP_PER_HOUSE],
                  !.score = [peakPopulation |-> TownPeak, wavesSurvived |-> 1,
                             totalGoldEarned |-> TownEarned]],
               EmptyStorage)

InitTown == PageLoaded({TownSave})

NextTown ==
    \/ Boot("continue")
    \/ now < MaxTownFrames /\ Frame(1)
    \/ nCommands < MaxTownCommands /\ TryPlace("house", FreeLot[1], FreeLot[2])
    \/ nCommands < MaxTownCommands /\ Demolish(OldHouse[1], OldHouse[2])
    \/ nCommands < MaxTownCommands /\ Reload

SpecTown == InitTown /\ [][NextTown]_vars

(***************************************************************************)
(* C14: the score                                                          *)
(***************************************************************************)
\* the score the player has: the session's while it runs, and what the
\* stored save holds while the page is being loaded
StandingScore ==
    IF pc = "running" THEN score
    ELSE IF storage.available /\ storage.item.kind = "json" /\ storage.item.wellFormed
         THEN storage.item.data.score
         ELSE NoData.score

\* C14: over ticks, player commands and saving and loading, peak population,
\* waves survived and gold earned never decrease, except by restart(); after
\* every tick the peak population is at least the population
C14_ScoreMonotone ==
    [][/\ last'.op # "restart" =>
             /\ StandingScore'.peakPopulation >= StandingScore.peakPopulation
             /\ StandingScore'.wavesSurvived >= StandingScore.wavesSurvived
             /\ StandingScore'.totalGoldEarned >= StandingScore.totalGoldEarned
       /\ Ticked => score'.peakPopulation >= resources'.population]_vars

\* the page was reloaded after ticks that earned taxes, and the loaded
\* session has the score those ticks left
C14_Witness ==
    /\ pc = "running" /\ last.op = "loadFromSave" /\ nCommands > 0
    /\ score.totalGoldEarned > TownEarned
    /\ score.peakPopulation = TownPeak
    /\ resources.population < TownPopulation

(***************************************************************************)
(* C15: service flags and countdowns                                       *)
(***************************************************************************)
\* the flags of a tile say whether its countdowns are positive
FlagsFollow(tile) ==
    /\ tile.hasWater <=> tile.waterTimer > 0
    /\ tile.hasFood <=> tile.foodTimer > 0

\* what a step may do to a countdown: a tick lowers a positive one by one,
\* no other step lowers it, and a walker's arrival may set it afresh
CountdownStep(before, after) ==
    \/ after = SERVICE_DURATION
    \/ after = (IF Ticked /\ before > 0 THEN before - 1 ELSE before)

\* C15: in every state each tile's water flag is true exactly when its water
\* countdown is positive, and likewise for food; a tick lowers each positive
\* countdown by one, once
C15_FlagsFollowCountdowns ==
    /\ [](\A c \in Cells : FlagsFollow(grid[c]))
    /\ [][pc' = "running" /\ pc = "running" =>
             \A c \in Cells :
                /\ CountdownStep(grid[c].waterTimer, grid'[c].waterTimer)
                /\ CountdownStep(grid[c].foodTimer, grid'[c].foodTimer)]_vars

(***************************************************************************)
(* The first spawn: a new game in which the player places roads and wells  *)
(* on four cells east of the forum (two of them beside it) and lets the    *)
(* first ticks run.                                                        *)
(***************************************************************************)
MaxFreshCommands == 2
MaxFreshFrames == 16

FreshCells ==
    {<<ForumCenter + 2, ForumCenter>>, <<ForumCenter + 2, ForumCenter + 1>>,
     <<ForumCenter + 3, ForumCenter>>, <<ForumCenter + 2, ForumCenter - 1>>}

InitFresh == PageLoaded({EmptyStorage})

NextFresh ==
    \/ Boot("new")
    \/ \E type \in {"road", "well"}, c \in FreshCells :
          nCommands < MaxFreshCommands /\ TryPlace(type, c[1], c[2])
    \/ now < MaxFreshFrames /\ Frame(1)

SpecFresh == InitFresh /\ [][NextFresh]_vars

(***************************************************************************)
(* C16: the first water walker                                             *)
(***************************************************************************)
\* the cells that hold a building of the type
CellsOf(type) == {c \in Cells : grid[c].building = type}

\* cells a and b are side by side
Beside(a, b) == Manhattan(a[1], a[2], b[1], b[2]) = 1

TouchesForum(c) == \E f \in CellsOf("forum") : Beside(c, f)

\* the map holds the forum, one road and one well, the road beside the forum
\* and the well beside the forum or the road, and the tick of the first well
\* cadence has just run
FirstWellTick ==
    /\ pc = "running" /\ last.op = "loop" /\ last.report.ran
    /\ tickCount = WELL_SPAWN_INTERVAL
    /\ Cardinality(CellsOf("road")) = 1
    /\ Cardinality(CellsOf("well")) = 1
    /\ \A c \in Cells : grid[c].building \in {"none", "forum", "road", "well"}
    /\ \A r \in CellsOf("road") : TouchesForum(r)
    /\ \A w \in CellsOf("well") :
          TouchesForum(w) \/ \E r \in CellsOf("road") : Beside(w, r)

AfterTick ==
    pc = "running" /\ last.op = "loop" /\ last.report.ran /\ ~gameOver

\* the houses with water and food
ServicedHouses == {c \in CellsOf("house") : grid[c].hasWater /\ grid[c].hasFood}

\* C17: after every completed tick the capacity is 10 for each house tile
\* whose water flag and food flag are both true; with one such house and no
\* other house it is 10
C17_Capacity ==
    AfterTick =>
       /\ resources.maxPopulation = 10 * Cardinality(ServicedHouses)
       /\ (Cardinality(CellsOf("house")) = 1 /\ CellsOf("house") = ServicedHouses)
             => resources.maxPopulation = 10

\* the first tick of the loaded session has run: one house, with water and
\* food, and a capacity of 10
C17_Witness ==
    /\ AfterTick
    /\ tickCount = TownTick + 1
    /\ CellsOf("house") = {OldHouse}
    /\ ServicedHouses = {OldHouse}
    /\ resources.maxPopulation = 10

(***************************************************************************)
(* C18: starvation                                                         *)
(***************************************************************************)
\* C18: a tick that leaves the food stock negative with a population above
\* 0 lowers the population by 3, and not below 0
C18_StarvationShrinks ==
    [][(Ticked /\ ~gameOver' /\ resources'.food < 0 /\ resources.population > 0) =>
          resources'.population =
             (IF resources.population - 3 > 0 THEN resources.population - 3 ELSE 0)]_vars

(***************************************************************************)
(* C19: what a melee exchange does to the invader                          *)
(***************************************************************************)
\* the exchanges and the tower shots of the tick of this step that hit the
\* invader listed k-th after it
ExchangesOn(k) ==
    Cardinality({j \in 1 .. Len(last'.report.exchanges) :
                    last'.report.exchanges[j][2] = k})

ShotsOn(k) ==
    Cardinality({j \in 1 .. Len(last'.report.shots) :
                    last'.report.shots[j].target = k})

\* the hit points the invader listed k-th after the tick had before it
HpBefore(k) ==
    IF k <= Len(Alive(invaders)) THEN Alive(invaders)[k].hp ELSE invaders'[k].maxHp

\* the exchanges an invader has been through when nothing else has hurt it
ExchangesSoFar(inv) == (inv.maxHp - inv.hp) \div 4

\* C19: each exchange takes exactly 4 hit points from the invader (a tower
\* shot takes TOWER_DAMAGE), the invader is dead exactly when its hit points
\* are 0 or below, and where no tower has been built an invader of h hit
\* points is dead after ceil(h / 4) exchanges and not before
C19_ExchangeTakesFour ==
    [][/\ Ticked =>
             \A k \in 1 .. Len(invaders') :
                /\ invaders'[k].hp =
                      HpBefore(k) - 4 * ExchangesOn(k) - TOWER_DAMAGE * ShotsOn(k)
                /\ invaders'[k].state = "dead" <=> invaders'[k].hp <= 0
       /\ (pc' = "running" /\ nCommands' = 0) =>
             \A k \in 1 .. Len(invaders') :
                LET inv == invaders'[k]
                IN  /\ inv.hp = inv.maxHp - 4 * ExchangesSoFar(inv)
                    /\ ExchangesSoFar(inv) <= (inv.maxHp + 3) \div 4
                    /\ inv.state = "dead" <=>
                          ExchangesSoFar(inv) = (inv.maxHp + 3) \div 4]_vars

\* an invader of the first wave (8 hit points) has just been killed by its
\* second exchange, no tower on the map
C19_Witness ==
    /\ pc = "running" /\ nCommands = 0
    /\ last.op = "loop" /\ last.report.ran
    /\ \E j \in 1 .. Len(last.report.exchanges) :
          LET inv == invaders[last.report.exchanges[j][2]]
          IN  /\ inv.maxHp = 8
              /\ inv.hp = 0
              /\ inv.state = "dead"

(***************************************************************************)
(* C20: the combat step                                                    *)
(***************************************************************************)
\* the walkers, the invaders and the exchanges of the combat step of the
\* tick of this step, the exchanges as pairs <<walker, invader>> of list
\* positions in the order fought
Fighters == last'.report.combat.walkers
Foes == last'.report.combat.invaders
Fought == last'.report.exchanges

\* the hit points of invader t when the turn of walker i comes
HpAtTurn(i, t) ==
    Foes[t].hp - 4 * Cardinality({j \in 1 .. Len(Fought) :
                                     Fought[j][1] < i /\ Fought[j][2] = t})

Gap(i, t) == Manhattan(Fighters[i].gridX, Fighters[i].gridZ, Foes[t].x, Foes[t].z)

\* the live invaders within range 5 of walker i at its turn, and the nearest
\* of them (the first listed among the nearest)
InRange(i) ==
    {t \in 1 .. Len(Foes) : Foes[t].state # "dead" /\ HpAtTurn(i, t) > 0 /\ Gap(i, t) <= 5}

IsNearest(i, t) ==
    /\ t \in InRange(i)
    /\ \A u \in InRange(i) : Gap(i, t) < Gap(i, u) \/ (Gap(i, t) = Gap(i, u) /\ t <= u)

\* the exchanges of walker i and what they cost it
FoughtBy(i) == {j \in 1 .. Len(Fought) : Fought[j][1] = i}

HpAfter(i) ==
    IF FoughtBy(i) = {} THEN Fighters[i].hp
    ELSE Fighters[i].hp - Foes[Fought[CHOOSE j \in FoughtBy(i) : TRUE][2]].damage

\* the walkers the combat step leaves, as positions of its list
Survivors == SelectSeq([i \in 1 .. Len(Fighters) |-> i], LAMBDA i : HpAfter(i) > 0)

\* C20: in the combat step of a tick every soldier whose nearest live
\* invader within range 5 is at distance 0 or 1 fights it, once, and no other
\* walker fights; the exchange takes 4 hit points from the invader and the
\* invader's damage from the soldier, whichever of them it kills; a soldier
\* left with 0 hit points or fewer is off the list when the step ends; no
\* exchange is with a dead invader
C20_CombatStep ==
    [][(Ticked /\ ~gameOver') =>
          /\ \A i \in 1 .. Len(Fighters) :
                IF /\ Fighters[i].type = "soldier"
                   /\ \E t \in InRange(i) : IsNearest(i, t) /\ Gap(i, t) <= 1
                THEN /\ Cardinality(FoughtBy(i)) = 1
                     /\ \A j \in FoughtBy(i) :
                           IsNearest(i, Fought[j][2]) /\ Gap(i, Fought[j][2]) <= 1
                ELSE FoughtBy(i) = {}
          /\ \A j \in 1 .. Len(Fought) :
                /\ Fought[j][1] \in 1 .. Len(Fighters)
                /\ Fought[j][2] \in 1 .. Len(Foes)
                /\ HpAtTurn(Fought[j][1], Fought[j][2]) > 0
          /\ Len(walkers') = Len(Survivors)
          /\ \A k \in 1 .. Len(Survivors) :
                /\ walkers'[k].hp = HpAfter(Survivors[k])
                /\ walkers'[k].hp > 0
                /\ walkers'[k].type = Fighters[Survivors[k]].type
          /\ \A t \in 1 .. Len(Foes) :
                invaders'[t].hp = Foes[t].hp - 4 * ExchangesOn(t)
                                     - TOWER_DAMAGE * ShotsOn(t)]_vars

\* a tick in which one exchange killed the invader and another killed the
\* soldier: the dead soldier is off the list, the dead invader had hit it
C20_Witness ==
    /\ pc = "running" /\ last.op = "loop" /\ last.report.ran
    /\ \E j \in 1 .. Len(last.report.exchanges) :
          LET s == last.report.combat.walkers[last.report.exchanges[j][1]]
              v == last.report.combat.invaders[last.report.exchanges[j][2]]
          IN  s.hp - v.damage <= 0 /\ Len(walkers) < Len(last.report.combat.walkers)
    /\ \E j \in 1 .. Len(last.report.exchanges) :
          LET v == invaders[last.report.exchanges[j][2]]
          IN  v.state = "dead" /\ v.hp <= 0

\* ---------------------------------------------------------------------------
\* C21: in every reachable state the current cell and the target cell of
\* every water, food and farmer walker hold a road or the forum, whatever the
\* interleaving of frames, ticks and the player's place and demolish commands.
RoadWalkers ==
    {i \in 1..Len(walkers) : walkers[i].type \in {"water", "food", "farmer"}}

OnRoadOrForum(x, z) ==
    /\ <<x, z>> \in Cells
    /\ grid[<<x, z>>].building \in {"road", "forum"}

C21_RoadWalkersOnRoads ==
    \A i \in RoadWalkers :
        /\ OnRoadOrForum(walkers[i].gridX, walkers[i].gridZ)
        /\ OnRoadOrForum(walkers[i].targetX, walkers[i].targetZ)

(***************************************************************************)
(* The defences: sessions saved one tick before the wave numbered          *)
(* WallWave + 1, one with a wall on the eastern approach worn down to       *)
(* WallHp and a sound wall on the southern approach, one with a tower worn  *)
(* down to WallHp on the eastern approach.  The player may demolish one of  *)
(* them.                                                                    *)
(***************************************************************************)
WallWave == 1
WallHp == 2
MaxWallFrames == 18
MaxWallCommands == 1

EastWall == <<ForumCenter + 2, ForumCenter + 1>>
SouthWall == <<ForumCenter + 1, ForumCenter + 2>>

WallSave ==
    LET g0 == [start(NewGame, 0) EXCEPT !.tickCount = EveOfWave(WallWave),
                                        !.waveNumber = WallWave,
                                        !.ticksUntilNextWave = 1,
                                        !.score.wavesSurvived = WallWave]
        g1 == tryPlace(g0, "wall", EastWall[1], EastWall[2]).g
        g2 == tryPlace(g1, "wall", SouthWall[1], SouthWall[2]).g
    IN  doSave([g2 EXCEPT !.grid[EastWall].buildingHp = WallHp], EmptyStorage)

TowerSave ==
    LET g0 == [start(NewGame, 0) EXCEPT !.tickCount = EveOfWave(WallWave),
                                        !.waveNumber = WallWave,
                                        !.ticksUntilNextWave = 1,
                                        !.score.wavesSurvived = WallWave]
        g1 == tryPlace(g0, "tower", EastWall[1], EastWall[2]).g
    IN  doSave([g1 EXCEPT !.grid[EastWall].buildingHp = WallHp], EmptyStorage)

InitWall == PageLoaded({WallSave, TowerSave})

NextWall ==
    \/ Boot("continue")
    \/ now < MaxWallFrames /\ Frame(1)
    \/ \E c \in {EastWall, SouthWall} :
          nCommands < MaxWallCommands /\ Demolish(c[1], c[2])

SpecWall == InitWall /\ [][NextWall]_vars

\* C22: an invader that arrives at a cell holding a wall is attacking there;
\* an invader attacking on a wall cell stays on that cell and stays attacking
\* (or dies) as long as the cell holds the wall, and it is moving again only
\* in a tick in which the invaders destroyed that wall
C22_WallHoldsInvader ==
    [][\A k \in 1 .. Len(Tracked) :
          LET a == Tracked[k]
              b == invaders'[k]
          IN  /\ (/\ a.state = "moving"
                  /\ <<b.x, b.z>> # <<a.x, a.z>>
                  /\ buildingAt(grid', b.x, b.z) = "wall")
                 => (b.state = "attacking" /\ b.progress = 0)
              /\ (/\ a.state = "attacking"
                  /\ buildingAt(grid, a.x, a.z) = "wall")
                 => /\ buildingAt(grid', a.x, a.z) = "wall"
                       => (b.state # "moving" /\ <<b.x, b.z>> = <<a.x, a.z>>)
                    /\ (b.state = "moving" \/ <<b.x, b.z>> # <<a.x, a.z>>)
                       => /\ last'.op = "loop" /\ last'.report.ran
                          /\ InSeq(<<a.x, a.z>>, last'.report.buildingsDestroyed)
                          /\ buildingAt(grid', a.x, a.z) = "none"]_vars

\* the invaders that came upon the worn wall attacked it, the tick of their
\* attack destroyed it, and they are moving again from the cleared cell,
\* while the sound wall still stands
C22_Witness ==
    /\ buildingAt(grid, EastWall[1], EastWall[2]) = "none"
    /\ buildingAt(grid, SouthWall[1], SouthWall[2]) = "wall"
    /\ nCommands = 0
    /\ last.op = "loop" /\ last.report.ran
    /\ InSeq(EastWall, last.report.buildingsDestroyed)
    /\ \E i \in 1 .. Len(invaders) :
          /\ invaders[i].state = "moving"
          /\ <<invaders[i].x, invaders[i].z>> = EastWall

(***************************************************************************)
(* Pausing: the besieged session with frames of uneven length, so that a   *)
(* tick can leave a remainder on the tick clock, and the space bar.         *)
(***************************************************************************)
MaxPauseFrames == 12
LongFrame == 3

NextPause ==
    \/ Boot("continue")
    \/ \E dt \in {1, LongFrame} : now + dt <= MaxPauseFrames /\ Frame(dt)
    \/ TogglePause

SpecPause == InitSiege /\ [][NextPause]_vars

C24_RestartIsFreshGame ==
    last.op = "restart"
    => /\ Holds(start(NewGame, now))
       /\ \A c \in Cells :
             /\ grid[c].building =
                   IF c \in ForumCells(<<ForumCenter, ForumCenter>>) THEN "forum" ELSE "none"
             /\ grid[c].buildingHp =
                   IF grid[c].building = "forum" THEN BUILDINGS["forum"].hp ELSE 0
             /\ grid[c].waterTimer = 0 /\ grid[c].foodTimer = 0
             /\ ~grid[c].hasWater /\ ~grid[c].hasFood
       /\ resources = [gold |-> 500, food |-> 0, population |-> 0, maxPopulation |-> 0]
       /\ score = [peakPopulation |-> 0, wavesSurvived |-> 0, totalGoldEarned |-> 0]
       /\ tickCount = 0 /\ tickAccumulator = 0
       /\ waveNumber = 0 /\ ticksUntilNextWave = 30
       /\ walkers = <<>> /\ invaders = <<>>
       /\ ~gameOver /\ ~paused
       /\ reachableRoads = ForumCells(<<ForumCenter, ForumCenter>>)
       /\ ~roadsDirty
       /\ Len(placedBuildings) = 1

\* the lost session has been restarted, some time after the page was loaded
C24_Witness ==
    /\ last.op = "restart"
    /\ pc = "running"
    /\ now > TickFrames
    /\ lastSaveTime = now

(***************************************************************************)
(* The lives of the walkers: a session saved before its first tick with a  *)
(* well beside the forum, left to run until the first walkers have gone.   *)
(* The water walkers circle the forum.                                     *)
(***************************************************************************)
MaxLifeTicks == 35

ForumWell == <<ForumCenter + 2, ForumCenter>>

LifeSave ==
    doSave(tryPlace(start(NewGame, 0), "well", ForumWell[1], ForumWell[2]).g,
           EmptyStorage)

InitLife == PageLoaded({LifeSave})

NextLife ==
    \/ Boot("continue")
    \/ now < MaxLifeTicks * TickFrames /\ Frame(1)

SpecLife == InitLife /\ [][NextLife]_vars

\* the walkers that the aging of the next tick leaves, in list order
Lasting == SelectSeq(walkers, LAMBDA w : w.lifespan > 1)

\* C25: a walker is listed with a lifespan from 1 to 29 (spawn() gives 30 and
\* the aging of the same tick takes one off); every tick takes exactly one off
\* each listed walker and drops the walkers that reach 0 wherever they are,
\* every walker a tick adds has 29 left, and no other step changes a lifespan:
\* a walker is listed after at most 29 ticks following the tick of its spawn
C25_WalkerLifespan ==
    /\ [](\A i \in 1 .. Len(walkers) :
              walkers[i].lifespan >= 1 /\ walkers[i].lifespan <= WALKER_LIFESPAN - 1)
    /\ [][/\ (last'.op = "loop" /\ last'.report.ran /\ ~gameOver')
             => /\ Len(walkers') >= Len(Lasting)
                /\ \A k \in 1 .. Len(Lasting) :
                      /\ walkers'[k].lifespan = Lasting[k].lifespan - 1
                      /\ walkers'[k].type = Lasting[k].type
                      /\ walkers'[k].homeX = Lasting[k].homeX
                      /\ walkers'[k].homeZ = Lasting[k].homeZ
                /\ \A k \in (Len(Lasting) + 1) .. Len(walkers') :
                      walkers'[k].lifespan = WALKER_LIFESPAN - 1
          /\ (last'.op = "loop" /\ ~last'.report.ran)
             => /\ Len(walkers') = Len(walkers)
                /\ \A k \in 1 .. Len(walkers) :
                      walkers'[k].lifespan = walkers[k].lifespan]_vars

\* a tick has dropped the first walkers of the well: fewer walkers are
\* listed than the well has sent
C25_Witness ==
    /\ last.op = "loop" /\ last.report.ran
    /\ tickCount > WALKER_LIFESPAN
    /\ walkers # <<>>
    /\ Len(walkers) < tickCount \div WELL_SPAWN_INTERVAL
    /\ \A i \in 1 .. Len(walkers) : walkers[i].type = "water"

\* the walkers that the tick of this step has added, in list order: the end
\* of the list that the tick hands to the combat
JustSpawned ==
    SubSeq(last'.report.combat.walkers, Len(Lasting) + 1,
           Len(last'.report.combat.walkers))

\* the homes of the added walkers of a type, and the buildings due to send
\* one on a cadence of n ticks
SpawnedFrom(type) ==
    [k \in {j \in 1 .. Len(JustSpawned) : JustSpawned[j].type = type} |->
        <<JustSpawned[k].homeX, JustSpawned[k].homeZ>>]

Due(n, list) == IF tickCount' % n = 0 THEN list ELSE <<>>

SentBy(type, sources) ==
    /\ Cardinality(DOMAIN SpawnedFrom(type)) = Len(sources)
    /\ {SpawnedFrom(type)[k] : k \in DOMAIN SpawnedFrom(type)}
          = {sources[i] : i \in 1 .. Len(sources)}

\* C26: a tick whose count is a multiple of 4 adds one water walker for each
\* active well and one food walker for each active market, a multiple of 6
\* one soldier for each barracks and a multiple of 5 one farmer for each
\* active farm, whatever the resources are; a tick adds no other walker and
\* no other step adds one
C26_SpawnOnCadence ==
    [][/\ (last'.op = "loop" /\ last'.report.ran /\ ~gameOver')
          => /\ SentBy("water", Due(WELL_SPAWN_INTERVAL, last'.report.wells))
             /\ SentBy("food", Due(MARKET_SPAWN_INTERVAL, last'.report.markets))
             /\ SentBy("soldier", Due(BARRACKS_SPAWN_INTERVAL, last'.report.barracks))
             /\ SentBy("farmer", Due(FARM_SPAWN_INTERVAL, last'.report.farms))
       /\ (pc' = "running" /\ ~(last'.op = "loop" /\ last'.report.ran))
          => Len(walkers') <= Len(walkers)]_vars

\* the four cells of the forum of a session
ForumFootprint == ForumCells(<<ForumCenter, ForumCenter>>)

\* C27: while a session runs and the game is not over, the four cells of the
\* forum hold the forum; a placement or a demolition, wherever the player
\* clicks, leaves these four tiles as they were; and the game becomes over
\* only in a tick in which an invader's attack left a forum tile without hit
\* points
C27_ForumStands ==
    /\ []((pc = "running" /\ ~gameOver)
            => \A c \in ForumFootprint : grid[c].building = "forum")
    /\ [][/\ last'.op \in {"tryPlace", "demolish"}
             => \A c \in ForumFootprint : grid'[c] = grid[c]
          /\ (gameOver' /\ ~gameOver)
             => /\ last'.op = "loop" /\ last'.report.ran
                /\ last'.report.forumDestroyed
                /\ \E c \in ForumFootprint :
                      /\ grid'[c].buildingHp <= 0
                      /\ grid[c].buildingHp > 0
                      /\ \E i \in 1 .. Len(invaders) :
                            /\ invaders[i].state = "attacking"
                            /\ <<invaders[i].x, invaders[i].z>> = c]_vars

\* two commands of the player, the second a demolition click on a forum
\* cell, have left the new game as it was
C27_Witness ==
    /\ pc = "running"
    /\ last.op = "demolish" /\ last.type = "forum" /\ ~last.ok
    /\ <<last.x, last.z>> \in ForumFootprint
    /\ nCommands = 2
    /\ resources.gold = STARTING_GOLD
    /\ Len(placedBuildings) = 1

\* C28: in a tick the population never becomes negative; it grows only when
\* the food left by the tick's food update is positive and the population is
\* below the capacity counted in the tick, and then not beyond that capacity;
\* it shrinks, by 3 at most, only when that food is not positive or the
\* population is above that capacity; in every other tick, and in every step
\* of a session that is not a tick, it is unchanged
C28_PopulationStep ==
    [][LET before == resources.population
           after == resources'.population
           food == resources'.food
           capacity == resources'.maxPopulation
       IN  /\ (last'.op = "loop" /\ last'.report.ran)
              => /\ after >= 0
                 /\ after > before
                    => (food > 0 /\ before < capacity /\ after <= capacity)
                 /\ after < before
                    => ((food <= 0 \/ before > capacity)
                        /\ before - after <= GROWTH_RATE)
                 /\ (food > 0 /\ before = capacity) => after = before
                 /\ (food <= 0 /\ before = 0) => after = before
           /\ (last'.op \in {"tryPlace", "demolish", "togglePause"}
                 \/ (last'.op = "loop" /\ ~last'.report.ran))
              => after = before]_vars

\* a tick after the famine has let the population grow again, with food in
\* stock and room in the house
C28_Witness ==
    /\ last.op = "loop" /\ last.report.ran
    /\ tickCount = TownTick + 6
    /\ resources.food > 0
    /\ resources.population = 1 + GROWTH_RATE
    /\ resources.population < resources.maxPopulation

\* the house on cell c is within reach of a walker of the type that has
\* arrived at a cell in the frame of this step
Refreshed(c, type) ==
    /\ grid'[c].building = "house"
    /\ ~gameOver'
    /\ \E i \in 1 .. Len(walkers') :
          /\ walkers'[i].type = type
          /\ walkers'[i].progress = 0
          /\ Manhattan(walkers'[i].gridX, walkers'[i].gridZ, c[1], c[2]) <= 1

\* a countdown after the aging of the tick of this step, if a tick ran
AfterAging(timer) == IF last'.report.ran /\ timer > 0 THEN timer - 1 ELSE timer

\* C29: the arrival of a water (food) walker at a cell sets the water (food)
\* countdown of every house on that cell and its four neighbours to 10, and a
\* frame changes no other countdown except by the aging of its tick: walkers
\* of the other types refresh nothing.  A tick takes one off each running
\* countdown and leaves the flag true exactly when the countdown it has aged
\* is still positive, so that a house refreshed once shows the flag after
\* each of the next 9 ticks and no longer from the 10th on; only a tick
\* changes a flag
C29_ServiceCountdown ==
    [][(last'.op = "loop" /\ ~paused)
       => \A c \in Cells :
             /\ grid'[c].waterTimer =
                   IF Refreshed(c, "water") THEN 10
                   ELSE AfterAging(grid[c].waterTimer)
             /\ grid'[c].foodTimer =
                   IF Refreshed(c, "food") THEN 10
                   ELSE AfterAging(grid[c].foodTimer)
             /\ grid'[c].hasWater =
                   IF last'.report.ran THEN AfterAging(grid[c].waterTimer) > 0
                   ELSE grid[c].hasWater
             /\ grid'[c].hasFood =
                   IF last'.report.ran THEN AfterAging(grid[c].foodTimer) > 0
                   ELSE grid[c].hasFood]_vars

\* the water walker refreshed the old house in the frame before this tick,
\* in which the food countdown, which no food walker has refreshed, ran out
C29_Witness ==
    /\ last.op = "loop" /\ last.report.ran
    /\ grid[OldHouse].building = "house"
    /\ grid[OldHouse].waterTimer = SERVICE_DURATION - 1 /\ grid[OldHouse].hasWater
    /\ grid[OldHouse].foodTimer = 0 /\ ~grid[OldHouse].hasFood
    /\ tickCount = TownTick + TownTimer

(***************************************************************************)
(* C30: the tower attacks                                                  *)
(***************************************************************************)
\* the shots of the tick of this step, in the order fired
Shots == last'.report.shots

\* the hit points of invader t when shot j is fired: what the combat left,
\* less the earlier shots at it
HpAtShot(j, t) ==
    Foes[t].hp - 4 * ExchangesOn(t)
       - TOWER_DAMAGE * Cardinality({i \in 1 .. (j - 1) : Shots[i].target = t})

\* the live invaders within the range of cell c when shot j is fired
LiveInRange(j, c) ==
    {t \in 1 .. Len(Foes) :
        /\ HpAtShot(j, t) > 0
        /\ Manhattan(Foes[t].x, Foes[t].z, c[1], c[2]) <= 6}

\* the place of cell c in the order of the scan
ScanPlace(c) == CHOOSE i \in 1 .. Len(ScanOrder) : ScanOrder[i] = c

\* the towers standing when the tower attacks run
StandingTowers == {c \in Cells : grid'[c].building = "tower"}

\* C30: in a tick every tower that stands when the tower attacks run fires at
\* most once, in scan order; its shot hits a live invader within Manhattan
\* distance 6 than which no live invader is nearer, and takes 3 hit points
\* from it; it holds its fire only when no live invader is in range; an
\* invader is dead exactly when its hit points are 0 or below; and every shot
\* comes from a cell that holds a tower
C30_TowerFire ==
    [][(Ticked /\ ~gameOver')
       => /\ \A j \in 1 .. Len(Shots) :
                LET c == Shots[j].from
                    t == Shots[j].target
                IN  /\ c \in StandingTowers
                    /\ t \in LiveInRange(j, c)
                    /\ \A u \in LiveInRange(j, c) :
                          Manhattan(Foes[u].x, Foes[u].z, c[1], c[2])
                             >= Manhattan(Foes[t].x, Foes[t].z, c[1], c[2])
          /\ \A c \in StandingTowers :
                LET fired == {j \in 1 .. Len(Shots) : Shots[j].from = c}
                    turn == 1 + Cardinality({j \in 1 .. Len(Shots) :
                                                ScanPlace(Shots[j].from) < ScanPlace(c)})
                IN  /\ Cardinality(fired) <= 1
                    /\ fired = {} => LiveInRange(turn, c) = {}
          /\ \A t \in 1 .. Len(invaders') :
                /\ invaders'[t].hp = HpAtShot(Len(Shots) + 1, t)
                /\ invaders'[t].state = "dead" <=> invaders'[t].hp <= 0]_vars

(***************************************************************************)
(* C31: the road set is recomputed lazily and is never stale               *)
(***************************************************************************)
\* the road and forum cells joined to the forum's footprint in the grid
JoinedToForum ==
    Chain(grid, {c \in ForumCells(forumPos) : grid[c].building \in {"road", "forum"}})

\* the cells that count as road for the flood fill
RoadOrForumCells(g) == {c \in Cells : g[c].building \in {"road", "forum"}}

\* C31: while roadsDirty is false the stored reachable set is the set of road
\* and forum cells joined to the forum's footprint by 4-adjacent road and
\* forum cells of the current grid; a step of a running game that changes
\* which cells are road or forum leaves the flag set or the set recomputed
C31_RoadSetNeverStale ==
    /\ [](pc = "running" /\ ~roadsDirty => reachableRoads = JoinedToForum)
    /\ [][(pc = "running" /\ pc' = "running"
           /\ RoadOrForumCells(grid') # RoadOrForumCells(grid))
          => (roadsDirty' \/ reachableRoads' = JoinedToForum')]_vars

\* a tick has recomputed the set after a change that cut a road off: the
\* flag is clear, a road cell of the grid is outside the set and the set
\* still reaches beyond the forum
C31_Witness ==
    /\ pc = "running"
    /\ ~roadsDirty
    /\ last.op = "loop"
    /\ last.report.ran
    /\ \E c \in Cells : grid[c].building = "road" /\ c \notin reachableRoads
    /\ \E c \in reachableRoads : grid[c].building = "road"

(***************************************************************************)
(* C32: the food balance of a tick                                         *)
(***************************************************************************)
\* C32: in every tick the food stock changes by FARM_FOOD_RATE for each
\* recorded farm with a cell beside its footprint in the reachable road set,
\* less FOOD_PER_POP for each inhabitant the tick started with, whatever
\* stands next to the farm (food is counted in halves)
C32_FoodBalance ==
    [][(last'.op = "loop" /\ last'.report.ran)
       => resources'.food - resources.food
            = 2 * FARM_FOOD_RATE
                * Cardinality(FarmsTouching(placedBuildings, reachableRoads'))
              - resources.population * FOOD_PER_POP_HALVES]_vars

(***************************************************************************)
(* C33: the route of an invader                                            *)
(***************************************************************************)
\* the steps from the cell to the nearest cell of the forum
StepsToForum(c) ==
    CHOOSE n \in 0 .. (2 * GRID_SIZE) :
        /\ \E f \in ForumCells(forumPos) : Manhattan(c[1], c[2], f[1], f[2]) = n
        /\ \A f \in ForumCells(forumPos) : Manhattan(c[1], c[2], f[1], f[2]) >= n

\* the path leads from the cell to the forum by in-bounds 4-adjacent steps
\* and is as short as the map allows
ShortestRoute(path, c) ==
    /\ Len(path) = StepsToForum(c) + 1
    /\ path[1] = c
    /\ \A k \in 1 .. Len(path) : isInBounds(path[k][1], path[k][2])
    /\ \A k \in 1 .. (Len(path) - 1) :
          Manhattan(path[k][1], path[k][2], path[k + 1][1], path[k + 1][2]) = 1
    /\ path[Len(path)] \in ForumCells(forumPos)

\* C33: from every cell of the map and on every grid the game reaches, the
\* search of computePath finds a path (the two-point fallback is not taken)
\* and the path computePath stores starts on the cell, moves by in-bounds
\* 4-adjacent steps, ends on a forum cell and has Manhattan length; so has
\* the path of every invader on the map
C33_RouteIsShortest ==
    /\ \A c \in Cells :
          /\ BfsToForum(grid, <<c>>, [d \in {c} |-> <<>>], forumPos) # <<>>
          /\ ShortestRoute(computePath(NewInvader(c[1], c[2], waveNumber),
                                       grid, forumPos).path, c)
    /\ \A i \in 1 .. Len(invaders) :
          ShortestRoute(invaders[i].path, invaders[i].path[1])

\* an invader is on the map whose path crosses a wall that stands
C33_Witness ==
    \E i \in 1 .. Len(invaders) :
        /\ Len(invaders[i].path) > 2
        /\ \E k \in 2 .. (Len(invaders[i].path) - 1) :
              grid[invaders[i].path[k]].building = "wall"

(***************************************************************************)
(* C34: one orthogonal step at a time                                      *)
(***************************************************************************)
\* the target is on the map and is the cell itself or one of its four
\* orthogonal neighbours
OneStepAway(x, z, tx, tz) ==
    /\ isInBounds(tx, tz)
    /\ Manhattan(x, z, tx, tz) <= 1

\* C34: the target cell of every walker (water, food, farmer, soldier) and of
\* every invader is in bounds and is its current cell or one of the four
\* orthogonal neighbours of its current cell
C34_OneOrthogonalStep ==
    /\ \A i \in 1 .. Len(walkers) :
          OneStepAway(walkers[i].gridX, walkers[i].gridZ,
                      walkers[i].targetX, walkers[i].targetZ)
    /\ \A j \in 1 .. Len(invaders) :
          OneStepAway(invaders[j].x, invaders[j].z,
                      invaders[j].targetX, invaders[j].targetZ)

\* a soldier and an invader are each on their way to a neighbouring cell
C34_Witness ==
    /\ \E i \in 1 .. Len(walkers) :
          /\ walkers[i].type = "soldier"
          /\ Manhattan(walkers[i].gridX, walkers[i].gridZ,
                       walkers[i].targetX, walkers[i].targetZ) = 1
    /\ \E j \in 1 .. Len(invaders) :
          /\ invaders[j].state = "moving"
          /\ Manhattan(invaders[j].x, invaders[j].z,
                       invaders[j].targetX, invaders[j].targetZ) = 1

(***************************************************************************)
(* C35: an attacking invader has a building under it                       *)
(***************************************************************************)
\* C35: after every tick each invader in the attacking state stands on a cell
\* that holds a building, whoever removed the building it was attacking
C35_AttackerOnBuilding ==
    (pc = "running" /\ last.op = "loop" /\ last.report.ran)
        => \A j \in 1 .. Len(invaders) :
              invaders[j].state = "attacking"
                  => grid[<<invaders[j].x, invaders[j].z>>].building # "none"

(***************************************************************************)
(* C36: every invader comes to attack the forum                            *)
(***************************************************************************)
\* a session with a wall at full strength on the eastern approach, no tower
\* and no soldier to harm the invaders and a player who does nothing, over
\* a time in which two waves land and either of them alone breaks the wall
\* and walks on to the forum
MaxMarchFrames == 180

MarchSave ==
    LET g0 == [start(NewGame, 0) EXCEPT !.tickCount = EveOfWave(WallWave),
                                        !.waveNumber = WallWave,
                                        !.ticksUntilNextWave = 1,
                                        !.score.wavesSurvived = WallWave]
    IN  doSave(tryPlace(g0, "wall", EastWall[1], EastWall[2]).g, EmptyStorage)

InitMarch == PageLoaded({MarchSave})

NextMarch ==
    \/ Boot("continue")
    \/ now < MaxMarchFrames /\ Frame(1)

SpecMarch == InitMarch /\ [][NextMarch]_vars

\* the j-th invader stands on a forum cell and is attacking
AttacksForum(j) ==
    /\ invaders[j].state = "attacking"
    /\ <<invaders[j].x, invaders[j].z>> \in ForumCells(forumPos)

\* C36: with frames and ticks kept running, no game over, no harm to the
\* invaders and no action of the player, every invader spawned comes to
\* stand on a forum cell in the attacking state: after MaxMarchFrames
\* frames every invader of the two waves is there
C36_InvadersReachForum ==
    (pc = "running" /\ now = MaxMarchFrames /\ ~gameOver)
        => /\ Len(invaders) = WaveCount(WallWave) + WaveCount(WallWave + 1)
           /\ \A j \in 1 .. Len(invaders) : AttacksForum(j)

(***************************************************************************)
(* C37: tiles and building records agree                                   *)
(***************************************************************************)
\* the records of the kind whose footprint holds the cell
RecordsOn(c, k) ==
    {i \in 1 .. Len(placedBuildings) :
        placedBuildings[i].type = k /\ c \in RecordCells(placedBuildings[i])}

C38_GoldNeverNegative ==
    /\ [](resources.gold >= 0)
    /\ [][/\ last'.op = "demolish" => resources'.gold = resources.gold
          /\ last'.op = "loop" => resources'.gold >= resources.gold]_vars

\* the player has spent the last gold on a building and a further placement
\* on a free cell has been refused
C38_Witness ==
    /\ pc = "running"
    /\ resources.gold = 0
    /\ Len(placedBuildings) > 1
    /\ last.op = "tryPlace"
    /\ ~last.ok
    /\ canPlace(grid, last.type, last.x, last.z)

(***************************************************************************)
(* C39: a new house starts unserviced                                      *)
(***************************************************************************)
\* the town session with the player demolishing the serviced house and
\* building a house on the same lot
NextLot ==
    \/ Boot("continue")
    \/ now < MaxTownFrames /\ Frame(1)
    \/ nCommands < MaxTownCommands /\ Demolish(OldHouse[1], OldHouse[2])
    \/ nCommands < MaxTownCommands /\ TryPlace("house", OldHouse[1], OldHouse[2])

SpecLot == InitTown /\ [][NextLot]_vars

\* C39: a house that has just been placed has both service flags false and
\* both countdowns at 0, whatever stood on its cell before, so that it counts
\* toward the capacity only after a water walker and a food walker have
\* serviced it
C39_NewHouseUnserviced ==
    [][(last'.op = "tryPlace" /\ last'.ok /\ last'.type = "house")
       => LET tile == grid'[<<last'.x, last'.z>>]
          IN  /\ ~tile.hasWater
              /\ ~tile.hasFood
              /\ tile.waterTimer = 0
              /\ tile.foodTimer = 0]_vars

=============================================================================
